---- MODULE Spec2Model ----
(***************************************************************************)
(* rlox: scanner, Pratt compiler, chunk with run-length line table and     *)
(* stack VM, modelled as a state machine.  Source bytes are one-character  *)
(* strings, a source is a sequence of them.  Indices into Rust slices are  *)
(* kept 0-based as in the source; the sequence access adds 1.              *)
(***************************************************************************)
EXTENDS Integers, Sequences, FiniteSets, TLC

VARIABLES
    build,      \* "debug" | "release": overflow checks on or off in this build
    mode,       \* main(): "repl" | "file"; the other specifications name themselves
    vm,         \* struct VM { chunk, ip, stack }
    comp,       \* Compiler + Parser + Scanner of the running interpret_source call
    pc,         \* position of the process
    ret,        \* what the last interpret_source call returned
    stdout,     \* values printed by the current call
    calls,      \* interpret_source calls made so far
    entry,      \* ghost: [start, steps]: code.len() when the current call began, and
                \* the iterations of run() it has made
    fresh,      \* ghost: VM::new() interpreting the current line alone
    exit,       \* process exit status of main(), -1 while it runs
    expect,     \* ghost: the file [src, val, arith]: an expression and its value
    scan,       \* [own, nl]: a Scanner driven to Eof on a source, and one on the
                \* source followed by a newline; each [scanner, prev, toks, ended]
    enc,        \* a LineEncoding and the lines added to it: [buf, added]
    last,       \* a chunk and the last write_constant call on it:
                \* [chunk, before, value, line]
    u24         \* the last call of write_u24 or read_u24: [op, n, buf, res, panicked]

vars == <<build, mode, vm, comp, pc, ret, stdout, calls, entry, fresh,
          exit, expect, scan, enc, last, u24>>

----------------------------------------------------------------------------
(* Bytes of the source language *)

Digits == {"0", "1", "2", "3", "4", "5", "6", "7", "8", "9"}

Alphabetic ==
    {"a", "b", "c", "d", "e", "f", "g", "h", "i", "j", "k", "l", "m", "n", "o",
     "p", "q", "r", "s", "t", "u", "v", "w", "x", "y", "z",
     "A", "B", "C", "D", "E", "F", "G", "H", "I", "J", "K", "L", "M", "N", "O",
     "P", "Q", "R", "S", "T", "U", "V", "W", "X", "Y", "Z"}

\* Option<u8>::None
NoByte == "<None>"

\* u8::is_ascii_digit / is_ascii_alphabetic on an Option<u8> that is Some
is_ascii_digit(c) == c \in Digits

is_ascii_alphabetic(c) == c \in Alphabetic

----------------------------------------------------------------------------
(* scanner.rs *)

\* Scanner::new
ScannerNew(source) == [source |-> source, start |-> 0, current |-> 0, line |-> 1]

\* Scanner::peek
peek(sc) ==
    IF sc.current < Len(sc.source) THEN sc.source[sc.current + 1] ELSE NoByte

\* Scanner::peek_next
peek_next(sc) ==
    IF sc.current + 1 < Len(sc.source) THEN sc.source[sc.current + 2] ELSE NoByte

\* Scanner::is_at_end
is_at_end(sc) == sc.current = Len(sc.source)

\* Scanner::advance: the scanner after the call (the byte returned is peek before)
advance(sc) ==
    IF peek(sc) # NoByte THEN [sc EXCEPT !.current = @ + 1] ELSE sc

\* Scanner::match_and_advance: TRUE iff the byte is consumed
match_and_advance(sc, expected) == ~is_at_end(sc) /\ peek(sc) = expected

\* the source slice [start, current)
Lexeme(sc) == SubSeq(sc.source, sc.start + 1, sc.current)

\* results of scan_token: Ok(Token), Err(ScanError), or no return at all
Token(ty, lexeme, line) ==
    [kind |-> "Ok", ty |-> ty, lexeme |-> lexeme, line |-> line, msg |-> ""]

ScanError(msg, line) ==
    [kind |-> "Err", ty |-> "ScanError", lexeme |-> <<>>, line |-> line, msg |-> msg]

\* the call never returns: its loop repeats an iteration that changes nothing
Diverges == [kind |-> "Hang", ty |-> "", lexeme |-> <<>>, line |-> 0, msg |-> ""]

\* Scanner::make_token
make_token(sc, ty) == Token(ty, Lexeme(sc), sc.line)

\* the inner loop of a line comment: while self.peek()? != b'\n' { advance }
RECURSIVE SkipComment(_)
SkipComment(sc) ==
    IF peek(sc) = NoByte \/ peek(sc) = "\n" THEN sc ELSE SkipComment(advance(sc))

\* Scanner::skip_whitespace; every `?` on None returns from the function
RECURSIVE skip_whitespace(_)
skip_whitespace(sc) ==
    LET c == peek(sc) IN
    IF c = NoByte THEN sc
    ELSE IF c \in {" ", "\r", "\t"} THEN skip_whitespace(advance(sc))
    ELSE IF c = "\n" THEN skip_whitespace(advance([sc EXCEPT !.line = @ + 1]))
    ELSE IF c = "/" THEN
        IF peek_next(sc) = "/"
        THEN LET e == SkipComment(sc) IN
             IF peek(e) = NoByte THEN e ELSE skip_whitespace(e)
        ELSE sc
    ELSE sc

\* the while-let loop of Scanner::string.  A byte other than '"' is consumed;
\* on '"' the body does nothing and the loop condition is evaluated again on
\* the same scanner, so the loop never exits.
RECURSIVE StringLoop(_)
StringLoop(sc) ==
    LET c == peek(sc) IN
    IF c = NoByte THEN [sc |-> sc, exits |-> TRUE]
    ELSE IF c # "\""
         THEN StringLoop(advance(IF c = "\n" THEN [sc EXCEPT !.line = @ + 1] ELSE sc))
         ELSE [sc |-> sc, exits |-> FALSE]

\* Scanner::string after its loop l: the advance and the token or the error
StringEnd(l) ==
    IF ~l.exits THEN [sc |-> l.sc, res |-> Diverges]
    ELSE IF peek(l.sc) = "\""
         THEN [sc |-> advance(l.sc), res |-> make_token(advance(l.sc), "Str")]
         ELSE [sc |-> advance(l.sc), res |-> ScanError("Unterminated string", l.sc.line)]

\* Scanner::string
string_token(sc) == StringEnd(StringLoop(sc))

\* a while loop of Scanner::number: while self.peek()?.is_ascii_digit() { advance }
\* none: the `?` met the end of the source and number() returned None
RECURSIVE DigitLoop(_)
DigitLoop(sc) ==
    IF peek(sc) = NoByte THEN [sc |-> sc, none |-> TRUE]
    ELSE IF is_ascii_digit(peek(sc)) THEN DigitLoop(advance(sc))
    ELSE [sc |-> sc, none |-> FALSE]

\* Scanner::number after its first loop a: the optional fraction
NumberFraction(a) ==
    IF a.none THEN [sc |-> a.sc, none |-> TRUE]
    ELSE IF peek(a.sc) = "."
         THEN IF peek_next(a.sc) = NoByte THEN [sc |-> a.sc, none |-> TRUE]
              ELSE IF is_ascii_digit(peek_next(a.sc))
                   THEN DigitLoop(advance(a.sc))
                   ELSE [sc |-> a.sc, none |-> FALSE]
         ELSE [sc |-> a.sc, none |-> FALSE]

\* Scanner::number: Option<Token>, none when a `?` returned None
number_token(sc) == NumberFraction(DigitLoop(sc))

\* the loop of Scanner::identifier
RECURSIVE IdentLoop(_)
IdentLoop(sc) ==
    LET c == peek(sc) IN
    IF c = NoByte THEN [sc |-> sc, none |-> TRUE]
    ELSE IF is_ascii_alphabetic(c) \/ is_ascii_digit(c) THEN IdentLoop(advance(sc))
    ELSE [sc |-> sc, none |-> FALSE]

\* Scanner::identifier_type
identifier_type(sc) ==
    LET w == Lexeme(sc) IN
    IF w = <<"a", "n", "d">> THEN "And"
    ELSE IF w = <<"c", "l", "a", "s", "s">> THEN "Class"
    ELSE IF w = <<"e", "l", "s", "e">> THEN "Else"
    ELSE IF w = <<"i", "f">> THEN "If"
    ELSE IF w = <<"n", "i", "l">> THEN "Nil"
    ELSE IF w = <<"o", "r">> THEN "Or"
    ELSE IF w = <<"p", "r", "i", "n", "t">> THEN "Print"
    ELSE IF w = <<"r", "e", "t", "u", "r", "n">> THEN "Return"
    ELSE IF w = <<"s", "u", "p", "e", "r">> THEN "Super"
    ELSE IF w = <<"v", "a", "r">> THEN "Var"
    ELSE IF w = <<"w", "h", "i", "l", "e">> THEN "While"
    ELSE IF w = <<"f", "a", "l", "s", "e">> THEN "False"
    ELSE IF w = <<"f", "o", "r">> THEN "For"
    ELSE IF w = <<"f", "u", "n">> THEN "Fun"
    ELSE IF w = <<"t", "h", "i", "s">> THEN "This"
    ELSE IF w = <<"t", "r", "u", "e">> THEN "True"
    ELSE "Identifier"

\* the one-byte tokens of scan_token's match
SingleByte ==
    [x \in {"(", ")", "{", "}", ";", ":", ",", ".", "-", "+", "/", "?", "*"} |->
        CASE x = "(" -> "LeftParen"   [] x = ")" -> "RightParen"
          [] x = "{" -> "LeftBrace"   [] x = "}" -> "RightBrace"
          [] x = ";" -> "Semicolon"   [] x = ":" -> "Colon"
          [] x = "," -> "Comma"       [] x = "." -> "Dot"
          [] x = "-" -> "Minus"       [] x = "+" -> "Plus"
          [] x = "/" -> "Slash"       [] x = "?" -> "QuestionMark"
          [] x = "*" -> "Star"]

\* the bytes that may be followed by '=': alone, and with '='
OneOrTwo ==
    [x \in {"!", "=", "<", ">"} |->
        CASE x = "!" -> <<"Bang", "BangEqual">>
          [] x = "=" -> <<"Equal", "EqualEqual">>
          [] x = "<" -> <<"Less", "LessEqual">>
          [] x = ">" -> <<"Greater", "GreaterEqual">>]

\* scan_token's `return self.number().context(ScanError { "invalid number" })`
NumberResult(n) ==
    IF n.none THEN [sc |-> n.sc, res |-> ScanError("invalid number", n.sc.line)]
    ELSE [sc |-> n.sc, res |-> make_token(n.sc, "Number")]

\* scan_token's `return self.identifier().context(ScanError { "invalid identifier" })`
IdentifierResult(n) ==
    IF n.none THEN [sc |-> n.sc, res |-> ScanError("invalid identifier", n.sc.line)]
    ELSE [sc |-> n.sc, res |-> make_token(n.sc, identifier_type(n.sc))]

\* scan_token after self.advance() returned the byte c and left the scanner s3
ScanByte(c, s3) ==
    IF c = NoByte THEN [sc |-> s3, res |-> make_token(s3, "Eof")]
    ELSE IF is_ascii_digit(c) THEN NumberResult(number_token(s3))
    ELSE IF is_ascii_alphabetic(c) THEN IdentifierResult(IdentLoop(s3))
    ELSE IF c \in DOMAIN SingleByte THEN [sc |-> s3, res |-> make_token(s3, SingleByte[c])]
    ELSE IF c \in DOMAIN OneOrTwo THEN
        IF match_and_advance(s3, "=")
        THEN LET s4 == [s3 EXCEPT !.current = @ + 1] IN
             [sc |-> s4, res |-> make_token(s4, OneOrTwo[c][2])]
        ELSE [sc |-> s3, res |-> make_token(s3, OneOrTwo[c][1])]
    ELSE IF c = "\"" THEN string_token(s3)
    ELSE [sc |-> s3, res |-> ScanError("unknown token", s3.current)]

\* scan_token after skip_whitespace left the scanner s1: self.start = self.current
ScanStart(s1) ==
    ScanByte(peek(s1), advance([s1 EXCEPT !.start = s1.current]))

\* Scanner::scan_token: the scanner after the call and what the call returned
scan_token(sc0) == ScanStart(skip_whitespace(sc0))

----------------------------------------------------------------------------
(* chunk/line_encoding.rs: buf is a byte sequence of 5-byte records,         *)
(* line_number as u32 little-endian followed by a u8 count                   *)

\* WriteBytesExt::write_u32::<LittleEndian>
write_u32_le(n) ==
    <<n % 256, (n \div 256) % 256, (n \div 65536) % 256, (n \div 16777216) % 256>>

\* LittleEndian::read_u32 of the four bytes of buf that start at 0-based index i
read_u32_le(buf, i) ==
    buf[i + 1] + 256 * buf[i + 2] + 65536 * buf[i + 3] + 16777216 * buf[i + 4]

\* an add that leaves a full count byte as it is; C9 tells it from add
LineEncodingAddSaturating(buf, line_number) ==
    LET len == Len(buf)
        count_index == len - 1
        line_number_index == count_index - 4
    IN
    IF len > 0 /\ line_number = read_u32_le(buf, line_number_index)
    THEN [buf EXCEPT ![count_index + 1] = IF @ < 255 THEN @ + 1 ELSE @]
    ELSE buf \o write_u32_le(line_number) \o <<1>>

\* an add that starts a record on every call; C26 tells it from add
LineEncodingAddEach(buf, line_number) == buf \o write_u32_le(line_number) \o <<1>>

\* LineEncoding::add
LineEncodingAdd(buf, line_number) ==
    LET len == Len(buf)
        count_index == len - 1
        line_number_index == count_index - 4
    IN
    IF len > 0 /\ line_number = read_u32_le(buf, line_number_index)
               /\ buf[count_index + 1] < 255
    THEN [buf EXCEPT ![count_index + 1] = @ + 1]
    ELSE buf \o write_u32_le(line_number) \o <<1>>

\* the expect() of LineEncoding::get failed: the index is beyond every record
GetPanics == -1

\* the loop of LineEncoding::get, reading the record at 0-based offset `at`
\* with i bytes counted so far
RECURSIVE LineEncodingGetFrom(_, _, _, _)
LineEncodingGetFrom(buf, index, at, i) ==
    IF at + 5 > Len(buf) THEN GetPanics
    ELSE LET line_number == read_u32_le(buf, at)
             count == buf[at + 5]
         IN IF i + count >= index + 1 THEN line_number
            ELSE LineEncodingGetFrom(buf, index, at + 5, i + count)

\* LineEncoding::get
LineEncodingGet(buf, index) == LineEncodingGetFrom(buf, index, 0, 0)

----------------------------------------------------------------------------
(* chunk.rs *)

OpReturn == 0
OpConstant == 1
OpConstantLong == 2
OpNegate == 3
OpAdd == 4
OpSubtract == 5
OpMultiply == 6
OpDivide == 7
\* the discriminants of the opcodes the compiler and the VM use beyond OpDivide
OpNil == 8
OpTrue == 9
OpFalse == 10
OpEqual == 11
OpGreater == 12
OpLess == 13
OpNot == 14

\* OpCode::try_from(u8) succeeds
IsOpCode(byte) == byte \in OpReturn .. OpNot

\* Chunk::new
ChunkNew == [code |-> <<>>, constants |-> <<>>, lines |-> <<>>]

\* a write that appends the byte and no line; C27 tells it from Chunk::write
ChunkWriteCodeOnly(ch, byte, line) == [ch EXCEPT !.code = Append(@, byte)]

\* Chunk::write
ChunkWrite(ch, byte, line) ==
    [ch EXCEPT !.code = Append(@, byte), !.lines = LineEncodingAdd(@, line)]

\* an add_constant that puts the value in front of the pool; C29 tells it from
\* add_constant
add_constant_front(ch, value) == [ch EXCEPT !.constants = <<value>> \o @]

\* Chunk::add_constant: the chunk after the call; the index returned is
\* constants.len() - 1
add_constant(ch, value) == [ch EXCEPT !.constants = Append(@, value)]

\* the assert of write_u24
U24Max == 16777215

\* a write_u24 that gives the low byte first; C13 tells it from write_u24
write_u24_low_first(n) == <<n % 256, (n \div 256) % 256, (n \div 65536) % 256>>

\* write_u24: the three low bytes of the big-endian u32
write_u24(n) == <<(n \div 65536) % 256, (n \div 256) % 256, n % 256>>

\* read_u24: the big-endian u32 of [0, buf[0], buf[1], buf[2]]
read_u24(buf) == 65536 * buf[1] + 256 * buf[2] + buf[3]

\* assert!(n <= 0xffffff) of write_u24 fails
write_u24_panics(n) == n > U24Max

\* assert!(buf.len() >= 3) of read_u24 fails, or assert!(n <= 0xffffff)
read_u24_panics(buf) == IF Len(buf) < 3 THEN TRUE ELSE read_u24(buf) > U24Max

\* a write_constant that keeps the short form for indices below 255 only; C11
\* tells it from write_constant
write_constant_below(ch, value, line) ==
    LET c1 == add_constant(ch, value)
        addr == Len(c1.constants) - 1
        b == write_u24(addr)
    IN
    IF addr < 255
    THEN ChunkWrite(ChunkWrite(c1, OpConstant, line), addr, line)
    ELSE ChunkWrite(ChunkWrite(ChunkWrite(ChunkWrite(c1, OpConstantLong, line),
                                          b[1], line), b[2], line), b[3], line)

\* a write_constant that always emits the short form; C10 tells it from
\* write_constant
write_constant_short(ch, value, line) ==
    LET c1 == add_constant(ch, value)
        addr == Len(c1.constants) - 1
    IN ChunkWrite(ChunkWrite(c1, OpConstant, line), addr % 256, line)

\* a write_constant whose operand is the length of the pool after the add;
\* C28 tells it from write_constant
write_constant_len(ch, value, line) ==
    LET c1 == add_constant(ch, value)
        addr == Len(c1.constants)
    IN
    IF addr <= 255
    THEN ChunkWrite(ChunkWrite(c1, OpConstant, line), addr, line)
    ELSE LET c2 == ChunkWrite(c1, OpConstantLong, line)
             b == write_u24(addr)
         IN IF addr > U24Max THEN c2
            ELSE ChunkWrite(ChunkWrite(ChunkWrite(c2, b[1], line), b[2], line), b[3], line)

\* Chunk::write_constant
write_constant(ch, value, line) ==
    LET c1 == add_constant(ch, value)
        addr == Len(c1.constants) - 1
    IN
    IF addr <= 255
    THEN ChunkWrite(ChunkWrite(c1, OpConstant, line), addr, line)
    ELSE LET c2 == ChunkWrite(c1, OpConstantLong, line)
             b == write_u24(addr)
         IN IF addr > U24Max THEN c2
            ELSE ChunkWrite(ChunkWrite(ChunkWrite(c2, b[1], line), b[2], line), b[3], line)

\* write_constant dies in write_u24's assert, after writing the opcode
write_constant_panics(ch) == Len(ch.constants) > U24Max

\* Chunk::get_line_number
get_line_number(ch, index) == LineEncodingGet(ch.lines, index)

----------------------------------------------------------------------------
(* value.rs.  Number(f64) is modelled by exact signed fractions s * n / d    *)
(* with the IEEE-754 special values: d = 0 is an infinity (n = 1) or NaN     *)
(* (n = 0), and zero keeps its sign.  Rounding of f64 is not modelled.       *)

RECURSIVE GCD(_, _)
GCD(a, b) == IF b = 0 THEN a ELSE GCD(b, a % b)

NaN == [s |-> 1, n |-> 0, d |-> 0]

Norm(s, n, d) ==
    IF d = 0 THEN (IF n = 0 THEN NaN ELSE [s |-> s, n |-> 1, d |-> 0])
    ELSE IF n = 0 THEN [s |-> s, n |-> 0, d |-> 1]
    ELSE LET g == GCD(n, d) IN [s |-> s, n |-> n \div g, d |-> d \div g]

IsNaN(a) == a.n = 0 /\ a.d = 0

IsInf(a) == a.n # 0 /\ a.d = 0

\* f64 from an integer literal
F64(i) == IF i < 0 THEN Norm(-1, -i, 1) ELSE Norm(1, i, 1)

\* Neg for f64
f64_neg(a) == IF IsNaN(a) THEN a ELSE [a EXCEPT !.s = -@]

\* Mul for f64
f64_mul(a, b) == Norm(a.s * b.s, a.n * b.n, a.d * b.d)

\* Div for f64
f64_div(a, b) == Norm(a.s * b.s, a.n * b.d, a.d * b.n)

\* Add for f64
f64_add(a, b) ==
    IF IsNaN(a) \/ IsNaN(b) THEN NaN
    ELSE IF IsInf(a) /\ IsInf(b) THEN (IF a.s = b.s THEN a ELSE NaN)
    ELSE IF IsInf(a) THEN a
    ELSE IF IsInf(b) THEN b
    ELSE LET v == a.s * a.n * b.d + b.s * b.n * a.d IN
         IF v = 0 THEN [s |-> IF a.s = -1 /\ b.s = -1 THEN -1 ELSE 1, n |-> 0, d |-> 1]
         ELSE IF v < 0 THEN Norm(-1, -v, a.d * b.d)
         ELSE Norm(1, v, a.d * b.d)

\* Sub for f64
f64_sub(a, b) == f64_add(a, f64_neg(b))

\* PartialOrd::lt for f64
f64_lt(a, b) ==
    IF IsNaN(a) \/ IsNaN(b) THEN FALSE
    ELSE IF IsInf(a) /\ IsInf(b) THEN a.s < b.s
    ELSE IF IsInf(a) THEN a.s < 0
    ELSE IF IsInf(b) THEN b.s > 0
    ELSE a.s * a.n * b.d < b.s * b.n * a.d

\* PartialEq::eq for f64
f64_eq(a, b) ==
    /\ ~IsNaN(a) /\ ~IsNaN(b)
    /\ a.n = b.n /\ a.d = b.d
    /\ (a.n = 0 /\ a.d # 0) \/ a.s = b.s

\* enum Value { Bool(bool), Nil, Number(f64), Str(String) }
Nil == [tag |-> "Nil", b |-> FALSE, num |-> F64(0), str |-> <<>>]

Bool(b) == [tag |-> "Bool", b |-> b, num |-> F64(0), str |-> <<>>]

Number(x) == [tag |-> "Number", b |-> FALSE, num |-> x, str |-> <<>>]

Str(s) == [tag |-> "Str", b |-> FALSE, num |-> F64(0), str |-> s]

\* Value::is_number / is_str / is_bool / is_nil
is_number(v) == v.tag = "Number"

is_str(v) == v.tag = "Str"

is_bool(v) == v.tag = "Bool"

is_nil(v) == v.tag = "Nil"

\* a falsiness that takes the number zero and the empty string for false too;
\* C17 tells it from is_falsey
is_falsey_or_zero(v) ==
    \/ is_nil(v)
    \/ is_bool(v) /\ ~v.b
    \/ is_number(v) /\ v.num.n = 0 /\ v.num.d # 0
    \/ is_str(v) /\ v.str = <<>>

\* Value::is_falsey
is_falsey(v) == is_nil(v) \/ (is_bool(v) /\ ~v.b)

\* #[derive(PartialEq)] for Value
ValueEq(l, r) ==
    /\ l.tag = r.tag
    /\ CASE l.tag = "Nil" -> TRUE
         [] l.tag = "Bool" -> l.b = r.b
         [] l.tag = "Number" -> f64_eq(l.num, r.num)
         [] l.tag = "Str" -> l.str = r.str

DigitValue ==
    [c \in Digits |->
        CASE c = "0" -> 0 [] c = "1" -> 1 [] c = "2" -> 2 [] c = "3" -> 3
          [] c = "4" -> 4 [] c = "5" -> 5 [] c = "6" -> 6 [] c = "7" -> 7
          [] c = "8" -> 8 [] c = "9" -> 9]

\* the decimal digits of lexeme[1..k] read as an integer, skipping the '.'
RECURSIVE DecimalValue(_, _)
DecimalValue(lexeme, k) ==
    IF k = 0 THEN 0
    ELSE IF lexeme[k] = "." THEN DecimalValue(lexeme, k - 1)
    ELSE 10 * DecimalValue(lexeme, k - 1) + DigitValue[lexeme[k]]

RECURSIVE Pow10(_)
Pow10(k) == IF k = 0 THEN 1 ELSE 10 * Pow10(k - 1)

\* digits after the '.', 0 without one
FractionDigits(lexeme) ==
    IF \E i \in 1 .. Len(lexeme) : lexeme[i] = "."
    THEN Len(lexeme) - (CHOOSE i \in 1 .. Len(lexeme) : lexeme[i] = ".")
    ELSE 0

\* str::parse::<f64> of a Number lexeme (digits, optionally '.' and digits)
ParseFloat(lexeme) ==
    Norm(1, DecimalValue(lexeme, Len(lexeme)), Pow10(FractionDigits(lexeme)))

\* str::trim_matches('"')
RECURSIVE trim_matches(_)
trim_matches(s) ==
    IF s = <<>> THEN s
    ELSE IF Head(s) = "\"" THEN trim_matches(Tail(s))
    ELSE IF s[Len(s)] = "\"" THEN trim_matches(SubSeq(s, 1, Len(s) - 1))
    ELSE s

----------------------------------------------------------------------------
(* compiler.rs: the parse-rule table *)

\* enum Precedence as u8
PrecNone == 0
PrecAssignment == 1
PrecOr == 2
PrecAnd == 3
PrecEquality == 4
PrecComparison == 5
PrecTerm == 6
PrecFactor == 7
PrecUnary == 8
PrecCall == 9
PrecPrimary == 10
PrecTernary == 11

Rule(prefix, infix, precedence) ==
    [prefix |-> prefix, infix |-> infix, precedence |-> precedence]

\* lazy_static RULES; a token type outside its domain has no entry
RULES ==
    [ty \in {"LeftParen", "RightParen", "LeftBrace", "RightBrace", "Comma", "Dot",
             "Minus", "Plus", "Semicolon", "Slash", "Star", "Bang", "BangEqual",
             "Equal", "EqualEqual", "Greater", "GreaterEqual", "Less", "LessEqual",
             "Identifier", "Str", "Number", "And", "Class", "Else", "False", "For",
             "Fun", "If", "Nil", "Or", "Print", "Return", "Super", "This", "True",
             "Var", "While", "Eof"} |->
        CASE ty = "LeftParen" -> Rule("grouping", "None", PrecCall)
          [] ty = "Dot" -> Rule("None", "None", PrecCall)
          [] ty = "Minus" -> Rule("unary", "binary", PrecTerm)
          [] ty = "Plus" -> Rule("None", "binary", PrecTerm)
          [] ty \in {"Slash", "Star"} -> Rule("None", "binary", PrecFactor)
          [] ty = "Bang" -> Rule("unary", "None", PrecNone)
          [] ty \in {"BangEqual", "EqualEqual"} -> Rule("None", "binary", PrecEquality)
          [] ty \in {"Greater", "GreaterEqual", "Less", "LessEqual"} ->
                Rule("None", "binary", PrecComparison)
          [] ty = "Str" -> Rule("string", "None", PrecNone)
          [] ty = "Number" -> Rule("number", "None", PrecNone)
          [] ty = "And" -> Rule("None", "None", PrecAnd)
          [] ty = "Or" -> Rule("None", "None", PrecOr)
          [] ty \in {"False", "Nil", "True"} -> Rule("literal", "None", PrecNone)
          [] OTHER -> Rule("None", "None", PrecNone)]

\* get_rule's expect("no rule") succeeds
has_rule(ty) == ty \in DOMAIN RULES

\* get_rule
get_rule(ty) == RULES[ty]

----------------------------------------------------------------------------
(* compiler.rs: Parser.  A result r is Ok(()), an Err of some kind, a call   *)
(* that never returns, or a panic.                                           *)

ROk == [k |-> "Ok", err |-> "", msg |-> "", line |-> 0]

RErr(err, msg, line) == [k |-> "Err", err |-> err, msg |-> msg, line |-> line]

RHang == [k |-> "Hang", err |-> "", msg |-> "", line |-> 0]

RPanic(msg) == [k |-> "Panic", err |-> "", msg |-> msg, line |-> 0]

\* Option<Token>::None
NoToken == [kind |-> "None", ty |-> "", lexeme |-> <<>>, line |-> 0, msg |-> ""]

\* Parser::new inside Compiler::new; frames is the call stack of compile(),
\* diag the diagnostics error_at printed, returned what compile() returned
ParserNew(source) ==
    [scanner |-> ScannerNew(source), current |-> NoToken, previous |-> NoToken,
     had_error |-> FALSE, panic_mode |-> FALSE,
     frames |-> <<>>, diag |-> <<>>, returned |-> "None"]

\* Parser::error_at
error_at(p, pos, msg) ==
    IF p.panic_mode THEN [p |-> p, r |-> ROk]
    ELSE LET p1 == [p EXCEPT !.panic_mode = TRUE]
             token == IF pos = "Current" THEN p.current ELSE p.previous
         IN
         IF token.kind = "None"
         THEN [p |-> p1,
               r |-> RErr("ParseError",
                          IF pos = "Current" THEN "no current token"
                                             ELSE "no previous token", 0)]
         ELSE [p |-> [p1 EXCEPT
                        !.diag = Append(@, [line |-> token.line,
                                            at |-> IF token.ty = "Eof" THEN <<"e", "n", "d">>
                                                                       ELSE token.lexeme,
                                            msg |-> msg]),
                        !.had_error = TRUE],
               r |-> ROk]

\* the loop of Parser::advance: the match on what scan_token returned (s)
RECURSIVE AdvanceLoop(_)
RECURSIVE AdvanceMatch(_, _)
RECURSIVE AdvanceError(_)
AdvanceError(e) == IF e.r.k # "Ok" THEN e ELSE AdvanceLoop(e.p)

AdvanceMatch(p, s) ==
    IF s.res.kind = "Ok"
    THEN [p |-> [p EXCEPT !.scanner = s.sc, !.current = s.res], r |-> ROk]
    ELSE IF s.res.kind = "Hang" THEN [p |-> [p EXCEPT !.scanner = s.sc], r |-> RHang]
    ELSE AdvanceError(error_at([p EXCEPT !.scanner = s.sc], "Current", s.res.msg))

AdvanceLoop(p) == AdvanceMatch(p, scan_token(p.scanner))

\* Parser::advance
ParserAdvance(p) ==
    AdvanceLoop([p EXCEPT !.previous = p.current, !.current = p.previous])

\* Parser::consume
consume(p, ty, msg) ==
    IF p.current.kind = "None"
    THEN [p |-> p, r |-> RErr("ParseError", "no current token", 0)]
    ELSE IF p.current.ty = ty THEN ParserAdvance(p)
    ELSE error_at(p, "Current", msg)

----------------------------------------------------------------------------
(* The interpreter as a machine m = [vm, comp, pc, ret, stdout]: one call of *)
(* interpret_source, stepped frame by frame through compile() and opcode by  *)
(* opcode through run().  pc is "idle", "compile", "run", "returned",        *)
(* "hang" (a loop that never exits) or "panic".                              *)

\* VM::new
VMNew == [chunk |-> ChunkNew, ip |-> 0, stack |-> <<>>]

NoRet == [k |-> "None", val |-> FALSE, err |-> "", msg |-> "", line |-> 0]

RetOk(val) == [k |-> "Ok", val |-> val, err |-> "", msg |-> "", line |-> 0]

RetOf(r) == [k |-> r.k, val |-> FALSE, err |-> r.err, msg |-> r.msg, line |-> r.line]

\* a frame of compile()'s call stack: what remains to do in that call
Frame(k, prec, op) == [k |-> k, prec |-> prec, op |-> op]

\* VM::interpret_source up to the call of compile(): Compiler::new(source, chunk)
InterpretSource(v, source) ==
    [vm |-> v,
     comp |-> [ParserNew(source) EXCEPT !.frames = <<Frame("compile", 0, "")>>],
     pc |-> "compile", ret |-> NoRet, stdout |-> <<>>]

\* a `?` that returns Err from interpret_source, a call that never returns,
\* or a panic; p is the parser as the failing call left it
Fail(m, p, r) ==
    [m EXCEPT !.comp = [p EXCEPT !.frames = <<>>, !.returned = r.k],
              !.pc = CASE r.k = "Err" -> "returned"
                       [] r.k = "Hang" -> "hang"
                       [] OTHER -> "panic",
              !.ret = RetOf(r)]

Top(m) == m.comp.frames[Len(m.comp.frames)]

\* the frames with the top one replaced by fs
Replace(frames, fs) == SubSeq(frames, 1, Len(frames) - 1) \o fs

\* Compiler::emit_byte for each byte of bytes, on the line of parser.previous
\* (`line as u32` keeps every line number a source of this model can reach)
RECURSIVE emit_bytes(_, _, _)
emit_bytes(ch, bytes, line) ==
    IF bytes = <<>> THEN ch
    ELSE emit_bytes(ChunkWrite(ch, Head(bytes), line), Tail(bytes), line)

\* an emit followed by the return of the current frame's call
EmitAndPop(m, bytes) ==
    IF m.comp.previous.kind = "None"
    THEN Fail(m, m.comp, RPanic("no previous"))
    ELSE [m EXCEPT !.vm.chunk = emit_bytes(@, bytes, m.comp.previous.line),
                   !.comp.frames = Replace(@, <<>>)]

\* Compiler::compile after its advance() returned a
Begin(m, a) ==
    IF a.r.k # "Ok" THEN Fail(m, a.p, a.r)
    ELSE [m EXCEPT !.comp = [a.p EXCEPT !.frames =
                 <<Frame("end", 0, ""), Frame("pp", PrecAssignment, "")>>]]

\* Compiler::compile up to the call of expression()
CompileBegin(m) ==
    Begin(m, ParserAdvance([m.comp EXCEPT !.had_error = FALSE, !.panic_mode = FALSE]))

\* Compiler::emit_constant
emit_constant(m, p, value, prec) ==
    IF write_constant_panics(m.vm.chunk)
    THEN Fail([m EXCEPT !.vm.chunk =
                 ChunkWrite(add_constant(@, value), OpConstantLong,
                            p.previous.line)],
              p, RPanic("write_u24"))
    ELSE [m EXCEPT !.vm.chunk = write_constant(@, value, p.previous.line),
                   !.comp = [p EXCEPT !.frames = Replace(@, <<Frame("loop", prec, "")>>)]]

\* literal()'s opcode
LiteralOp(ty) ==
    CASE ty = "False" -> OpFalse [] ty = "True" -> OpTrue [] ty = "Nil" -> OpNil

\* parse_precedence after its first advance() returned a: the prefix rule and
\* the prefix functions number, string, literal, and grouping and unary up to
\* their recursive call
Prefix(m, a) ==
    LET prec == Top(m).prec
        p == a.p
        ty == p.previous.ty
    IN
    IF a.r.k # "Ok" THEN Fail(m, p, a.r)
    ELSE IF p.previous.kind = "None"
         THEN Fail(m, p, RErr("ParseError", "no previous token", 0))
    ELSE IF ~has_rule(ty) THEN Fail(m, p, RPanic("no rule"))
    ELSE LET prefix == get_rule(ty).prefix IN
         CASE prefix = "None" -> Fail(m, p, RErr("ParseRuleError", "no prefix rule", 0))
           [] prefix = "number" ->
                emit_constant(m, p, Number(ParseFloat(p.previous.lexeme)), prec)
           [] prefix = "string" ->
                emit_constant(m, p, Str(trim_matches(p.previous.lexeme)), prec)
           [] prefix = "literal" ->
                [m EXCEPT !.vm.chunk = emit_bytes(@, <<LiteralOp(ty)>>, p.previous.line),
                          !.comp = [p EXCEPT !.frames =
                                      Replace(@, <<Frame("loop", prec, "")>>)]]
           [] prefix = "grouping" ->
                [m EXCEPT !.comp = [p EXCEPT !.frames =
                    Replace(@, <<Frame("loop", prec, ""), Frame("grouping", 0, ""),
                                 Frame("pp", PrecAssignment, "")>>)]]
           [] prefix = "unary" ->
                [m EXCEPT !.comp = [p EXCEPT !.frames =
                    Replace(@, <<Frame("loop", prec, ""), Frame("unary", 0, ty),
                                 Frame("pp", PrecUnary, "")>>)]]

\* Compiler::parse_precedence up to its while loop
ParsePrecedence(m) == Prefix(m, ParserAdvance(m.comp))

\* the body of parse_precedence's while loop after its advance() returned a:
\* the infix rule, and binary() up to its recursive call
Infix(m, a) ==
    LET p == a.p
        ty == p.previous.ty
    IN
    IF a.r.k # "Ok" THEN Fail(m, p, a.r)
    ELSE IF p.previous.kind = "None"
         THEN Fail(m, p, RErr("ParseError", "no previous token", 0))
    ELSE IF ~has_rule(ty) THEN Fail(m, p, RPanic("no rule"))
    ELSE IF get_rule(ty).infix = "None"
         THEN Fail(m, p, RErr("ParseRuleError", "no infix rule", 0))
    ELSE IF get_rule(ty).precedence + 1 > PrecTernary
         THEN Fail(m, p, RPanic("invalid precedence"))
    ELSE [m EXCEPT !.comp = [p EXCEPT !.frames =
             @ \o <<Frame("binary", 0, ty),
                    Frame("pp", get_rule(ty).precedence + 1, "")>>]]

\* one evaluation of the while condition of parse_precedence and, when it
\* holds, the body up to binary()'s recursive call
PrecedenceLoop(m) ==
    LET prec == Top(m).prec
        p0 == m.comp
    IN
    IF p0.current.kind = "None"
    THEN Fail(m, p0, RErr("ParseError", "no current token", 0))
    ELSE IF ~has_rule(p0.current.ty) THEN Fail(m, p0, RPanic("no rule"))
    ELSE IF prec <= get_rule(p0.current.ty).precedence
    THEN Infix(m, ParserAdvance(p0))
    ELSE [m EXCEPT !.comp.frames = Replace(@, <<>>)]

\* grouping() after its consume() returned c
GroupingEnd(m, c) ==
    IF c.r.k # "Ok" THEN Fail(m, c.p, c.r)
    ELSE [m EXCEPT !.comp = [c.p EXCEPT !.frames = Replace(@, <<>>)]]

\* grouping() after expression(): consume the ')'
Grouping(m) ==
    GroupingEnd(m, consume(m.comp, "RightParen", "Expect ')' after expression"))

\* unary() after its parse_precedence(Unary)
Unary(m) ==
    EmitAndPop(m, IF Top(m).op = "Minus" THEN <<OpNegate>> ELSE <<OpNot>>)

\* a binary() that negates the wrong comparison for >= and <=; C18 tells it
\* from BinaryBytes
BinaryBytesSwapped(ty) ==
    CASE ty = "Plus" -> <<OpAdd>>
      [] ty = "Minus" -> <<OpSubtract>>
      [] ty = "Star" -> <<OpMultiply>>
      [] ty = "Slash" -> <<OpDivide>>
      [] ty = "BangEqual" -> <<OpEqual, OpNot>>
      [] ty = "EqualEqual" -> <<OpEqual>>
      [] ty = "Greater" -> <<OpGreater>>
      [] ty = "GreaterEqual" -> <<OpGreater, OpNot>>
      [] ty = "Less" -> <<OpLess>>
      [] ty = "LessEqual" -> <<OpLess, OpNot>>

\* the bytes binary() emits for an operator
BinaryBytes(ty) ==
    CASE ty = "Plus" -> <<OpAdd>>
      [] ty = "Minus" -> <<OpSubtract>>
      [] ty = "Star" -> <<OpMultiply>>
      [] ty = "Slash" -> <<OpDivide>>
      [] ty = "BangEqual" -> <<OpEqual, OpNot>>
      [] ty = "EqualEqual" -> <<OpEqual>>
      [] ty = "Greater" -> <<OpGreater>>
      [] ty = "GreaterEqual" -> <<OpLess, OpNot>>
      [] ty = "Less" -> <<OpLess>>
      [] ty = "LessEqual" -> <<OpGreater, OpNot>>

\* binary() after its parse_precedence(rule.precedence + 1)
Binary(m) == EmitAndPop(m, BinaryBytes(Top(m).op))

\* a compile() that returns Ok(true) whatever had_error is; C21 tells it from
\* End
EndAlwaysTrue(m, c) ==
    IF c.r.k # "Ok" THEN Fail(m, c.p, c.r)
    ELSE IF c.p.previous.kind = "None" THEN Fail(m, c.p, RPanic("no previous"))
    ELSE [m EXCEPT !.vm.chunk = emit_bytes(@, <<OpReturn>>, c.p.previous.line),
                   !.comp = [c.p EXCEPT !.frames = <<>>, !.returned = "Ok(true)"],
                   !.pc = "run"]

\* Compiler::compile after its consume() returned c: end(), Ok(!had_error);
\* then interpret_source calls run()
End(m, c) ==
    IF c.r.k # "Ok" THEN Fail(m, c.p, c.r)
    ELSE IF c.p.previous.kind = "None" THEN Fail(m, c.p, RPanic("no previous"))
    ELSE [m EXCEPT !.vm.chunk = emit_bytes(@, <<OpReturn>>, c.p.previous.line),
                   !.comp = [c.p EXCEPT !.frames = <<>>,
                                        !.returned = IF c.p.had_error THEN "Ok(false)"
                                                                      ELSE "Ok(true)"],
                   !.pc = "run"]

\* Compiler::compile after expression(): consume Eof, then the end
CompileEnd(m) == End(m, consume(m.comp, "Eof", "Expect end of expression"))

\* one step of compile(): the top frame's call runs to its next call or return
CompileStep(m) ==
    LET k == Top(m).k IN
    CASE k = "compile" -> CompileBegin(m)
      [] k = "pp" -> ParsePrecedence(m)
      [] k = "loop" -> PrecedenceLoop(m)
      [] k = "grouping" -> Grouping(m)
      [] k = "unary" -> Unary(m)
      [] k = "binary" -> Binary(m)
      [] k = "end" -> CompileEnd(m)

----------------------------------------------------------------------------
(* vm.rs: run() *)

STACK_MAX == 100

\* VM::push
push(v, value) == [v EXCEPT !.stack = Append(@, value)]

\* VM::pop on a stack that is not empty: the VM after the call
pop(v) == [v EXCEPT !.stack = SubSeq(@, 1, Len(@) - 1)]

\* the value VM::pop returns
top(v) == v.stack[Len(v.stack)]

\* run() returned Err, or the process died
RunFail(m, v, r) ==
    [m EXCEPT !.vm = v,
              !.pc = IF r.k = "Err" THEN "returned" ELSE "panic",
              !.ret = RetOf(r)]

PopError == RErr("NoOpCodeError", "pop error", 0)

\* VM::peek(index): stack.len() - index - 1 underflows when the stack holds
\* index values or fewer; a build with overflow checks panics there, a build
\* without them wraps and Vec::get returns None
PeekFail(m, v, bld) ==
    IF bld = "debug" THEN RunFail(m, v, RPanic("attempt to subtract with overflow"))
    ELSE RunFail(m, v, RErr("NoOpCodeError", "peek", 0))

\* the closures handed to binary_op!, applied to (second popped, first popped)
AddNum(l, r) == Number(f64_add(l.num, r.num))

AddStr(l, r) == Str(l.str \o r.str)

SubNum(l, r) == Number(f64_sub(l.num, r.num))

MulNum(l, r) == Number(f64_mul(l.num, r.num))

DivNum(l, r) == Number(f64_div(l.num, r.num))

EqualAny(l, r) == Bool(ValueEq(l, r))

GreaterNum(l, r) == Bool(f64_lt(r.num, l.num))

LessNum(l, r) == Bool(f64_lt(l.num, r.num))

\* the closure applied to (first popped, second popped); C22 tells it from
\* Closure
ClosureSwapped(op, l, r) ==
    CASE op = "AddNum" -> AddNum(r, l)
      [] op = "AddStr" -> AddStr(r, l)
      [] op = "SubNum" -> SubNum(r, l)
      [] op = "MulNum" -> MulNum(r, l)
      [] op = "DivNum" -> DivNum(r, l)
      [] op = "EqualAny" -> EqualAny(r, l)
      [] op = "GreaterNum" -> GreaterNum(r, l)
      [] op = "LessNum" -> LessNum(r, l)

\* $op(right, left) for the closure named op
Closure(op, l, r) ==
    CASE op = "AddNum" -> AddNum(l, r)
      [] op = "AddStr" -> AddStr(l, r)
      [] op = "SubNum" -> SubNum(l, r)
      [] op = "MulNum" -> MulNum(l, r)
      [] op = "DivNum" -> DivNum(l, r)
      [] op = "EqualAny" -> EqualAny(l, r)
      [] op = "GreaterNum" -> GreaterNum(l, r)
      [] op = "LessNum" -> LessNum(l, r)

\* a binary_op! that reports the line of the opcode itself; C23 tells it from
\* BinaryOpTyped
BinaryOpTypedOwnLine(m, v, conv, op) ==
    IF v.stack = <<>> THEN RunFail(m, v, PopError)
    ELSE LET left == top(v)
             v1 == pop(v)
             line == get_line_number(v.chunk, v.ip - 1)
         IN
         IF line = GetPanics THEN RunFail(m, v1, RPanic("read line number"))
         ELSE IF left.tag # conv THEN RunFail(m, v1, RErr("TypeError", "", line))
         ELSE IF v1.stack = <<>> THEN RunFail(m, v1, PopError)
         ELSE LET right == top(v1)
                  v2 == pop(v1)
              IN
              IF right.tag # conv THEN RunFail(m, v2, RErr("TypeError", "", line))
              ELSE [m EXCEPT !.vm = push(v2, Closure(op, right, left))]

\* binary_op!($op, $ty, $err_msg): conv is the tag $ty converts from, op the
\* closure; v has ip past the opcode
BinaryOpTyped(m, v, conv, op) ==
    IF v.stack = <<>> THEN RunFail(m, v, PopError)
    ELSE LET left == top(v)
             v1 == pop(v)
             line == get_line_number(v.chunk, v.ip)
         IN
         IF line = GetPanics THEN RunFail(m, v1, RPanic("read line number"))
         ELSE IF left.tag # conv THEN RunFail(m, v1, RErr("TypeError", "", line))
         ELSE IF v1.stack = <<>> THEN RunFail(m, v1, PopError)
         ELSE LET right == top(v1)
                  v2 == pop(v1)
              IN
              IF right.tag # conv THEN RunFail(m, v2, RErr("TypeError", "", line))
              ELSE [m EXCEPT !.vm = push(v2, Closure(op, right, left))]

\* binary_op!($op): no conversion
BinaryOpAny(m, v, op) ==
    IF v.stack = <<>> THEN RunFail(m, v, PopError)
    ELSE IF pop(v).stack = <<>> THEN RunFail(m, pop(v), PopError)
    ELSE [m EXCEPT !.vm = push(pop(pop(v)), Closure(op, top(pop(v)), top(v)))]

\* an OpAdd of numbers only; C16 tells it from the OpAdd arm
RunAddNumbers(m, v, bld) ==
    IF Len(v.stack) < 1 THEN PeekFail(m, v, bld)
    ELSE BinaryOpTyped(m, v, "Number", "AddNum")

\* the OpAdd arm of run()
RunAdd(m, v, bld) ==
    IF Len(v.stack) < 1 THEN PeekFail(m, v, bld)
    ELSE IF is_str(top(v))
         THEN IF Len(v.stack) < 2 THEN PeekFail(m, v, bld)
              ELSE IF is_str(top(pop(v))) THEN BinaryOpTyped(m, v, "Str", "AddStr")
              ELSE BinaryOpTyped(m, v, "Number", "AddNum")
         ELSE BinaryOpTyped(m, v, "Number", "AddNum")

\* the OpNegate arm of run()
RunNegate(m, v) ==
    IF v.stack = <<>> THEN RunFail(m, v, PopError)
    ELSE LET constant == top(v)
             v1 == pop(v)
             line == get_line_number(v.chunk, v.ip)
         IN
         IF line = GetPanics THEN RunFail(m, v1, RPanic("read line number"))
         ELSE IF ~is_number(constant) THEN RunFail(m, v1, RErr("TypeError", "", line))
         ELSE [m EXCEPT !.vm = push(v1, Number(f64_neg(constant.num)))]

\* VM::read_constant, and the push of the OpConstant arm; v has ip past the opcode
RunConstant(m, v) ==
    IF v.ip >= Len(v.chunk.code) THEN RunFail(m, v, RPanic("read_byte"))
    ELSE LET constant == v.chunk.code[v.ip + 1]
             v1 == [v EXCEPT !.ip = @ + 1]
         IN
         IF constant >= Len(v.chunk.constants) THEN RunFail(m, v1, RPanic("read_constant"))
         ELSE [m EXCEPT !.vm = push(v1, v.chunk.constants[constant + 1])]

\* VM::read_constant_long, and the push of the OpConstantLong arm
RunConstantLong(m, v) ==
    IF v.ip + 3 > Len(v.chunk.code)
    THEN RunFail(m, [v EXCEPT !.ip = Len(v.chunk.code)], RPanic("read_byte"))
    ELSE LET code == v.chunk.code
             constant == read_u24(<<0, code[v.ip + 1], code[v.ip + 2], code[v.ip + 3]>>)
             v1 == [v EXCEPT !.ip = @ + 3]
         IN
         IF constant >= Len(v.chunk.constants)
         THEN RunFail(m, v1, RPanic("read_constant_long"))
         ELSE [m EXCEPT !.vm = push(v1, v.chunk.constants[constant + 1])]

\* a Return that prints the top of the stack and leaves it there; C7 tells it
\* from the OpReturn arm
RunReturnKeeps(m, v) ==
    IF v.stack = <<>> THEN RunFail(m, v, PopError)
    ELSE [m EXCEPT !.vm = v,
                   !.stdout = Append(@, top(v)),
                   !.pc = "returned",
                   !.ret = RetOk(m.comp.returned = "Ok(true)")]

\* the OpReturn arm of run(), and the Ok(ret) of interpret_source after it
RunReturn(m, v) ==
    IF v.stack = <<>> THEN RunFail(m, v, PopError)
    ELSE [m EXCEPT !.vm = pop(v),
                   !.stdout = Append(@, top(v)),
                   !.pc = "returned",
                   !.ret = RetOk(m.comp.returned = "Ok(true)")]

\* one iteration of the loop of run(): read_byte, decode, execute
RunStep(m, bld) ==
    LET v0 == m.vm IN
    IF v0.ip >= Len(v0.chunk.code) THEN RunFail(m, v0, RPanic("read_byte"))
    ELSE LET instruction == v0.chunk.code[v0.ip + 1]
             v == [v0 EXCEPT !.ip = @ + 1]
         IN
         IF ~IsOpCode(instruction) THEN RunFail(m, v, RPanic("read byte"))
         ELSE CASE instruction = OpReturn -> RunReturn(m, v)
                [] instruction = OpConstant -> RunConstant(m, v)
                [] instruction = OpConstantLong -> RunConstantLong(m, v)
                [] instruction = OpNegate -> RunNegate(m, v)
                [] instruction = OpAdd -> RunAdd(m, v, bld)
                [] instruction = OpSubtract -> BinaryOpTyped(m, v, "Number", "SubNum")
                [] instruction = OpMultiply -> BinaryOpTyped(m, v, "Number", "MulNum")
                [] instruction = OpDivide -> BinaryOpTyped(m, v, "Number", "DivNum")
                [] instruction = OpNil -> [m EXCEPT !.vm = push(v, Nil)]
                [] instruction = OpFalse -> [m EXCEPT !.vm = push(v, Bool(FALSE))]
                [] instruction = OpTrue -> [m EXCEPT !.vm = push(v, Bool(TRUE))]
                [] instruction = OpNot ->
                     IF v.stack = <<>> THEN RunFail(m, v, PopError)
                     ELSE [m EXCEPT !.vm = push(pop(v), Bool(is_falsey(top(v))))]
                [] instruction = OpEqual -> BinaryOpAny(m, v, "EqualAny")
                [] instruction = OpGreater -> BinaryOpTyped(m, v, "Number", "GreaterNum")
                [] instruction = OpLess -> BinaryOpTyped(m, v, "Number", "LessNum")

\* one step of interpret_source
MStep(m, bld) ==
    CASE m.pc = "compile" -> CompileStep(m)
      [] m.pc = "run" -> RunStep(m, bld)
      [] OTHER -> m

----------------------------------------------------------------------------
(* main.rs: the REPL and the file runner around one VM *)

\* the REPL session is cut after this many lines
MaxCalls == 3

\* the machine of the running call
M == [vm |-> vm, comp |-> comp, pc |-> pc, ret |-> ret, stdout |-> stdout]

SetM(n) ==
    /\ vm' = n.vm
    /\ comp' = n.comp
    /\ pc' = n.pc
    /\ ret' = n.ret
    /\ stdout' = n.stdout

Idle(v) == [vm |-> v, comp |-> ParserNew(<<>>), pc |-> "idle", ret |-> NoRet,
            stdout |-> <<>>]

Running(m) == m.pc \in {"compile", "run"}

\* the fresh VM interprets the same line, in step with the session's VM
FreshStep == fresh' = MStep(fresh, build)

\* u8::max_value(), the last index write_constant emits in one byte
U8Max == 255

\* a sum of n literals, so that the pool gets n constants: 1 + 1 + ... + 1 + 2
LongSum(n) ==
    [i \in 1..(2 * n) |->
        IF i = 2 * n THEN "\n"
        ELSE IF i % 2 = 0 THEN "+"
        ELSE IF i = 2 * n - 1 THEN "2"
        ELSE "1"]

\* a line that fills the pool past the one-byte indices
LongLine == LongSum(U8Max + 2)

\* sources: one line each, as read_line returns it or as a file holds it
Lines ==
    { <<"1", "\n">>,
      <<"1">>,
      <<"\n">>,
      <<"1", " ", "+", " ", "n", "i", "l", "\n">>,
      <<"n", "i", "l", " ", "+", " ", "1", "\n">>,
      <<"-", "n", "i", "l", "\n">>,
      <<"(", "1", " ", "+", " ", "2", "\n">>,
      <<"(", "1", " ", "+", " ", "2">>,
      <<"1", " ", "+", " ", ")", "\n">>,
      <<"!", "(", "1", " ", "<", " ", "2", ")", " ", "=", "=", " ", "(", "1", " ",
        ">", "=", " ", "2", ")", "\n">>,
      <<"1", " ", "+", " ", "\"", "a", "\"", "\n">>,
      <<"\"", "a", "\n">>,
      <<"1", " ", "?", " ", "2", "\n">>,
      <<"1", " ", "a", "n", "d", " ", "2", "\n">>,
      <<"-", "n", "i", "l", " ", "+", " ", "-", "n", "i", "l", "\n">>,
      LongLine }

\* a scanner on a source, the results of its scan_token calls so far, and the
\* scanner as it was before the last call; ended when a call returned Eof or
\* did not return
Scanning(source) ==
    [scanner |-> ScannerNew(source), prev |-> ScannerNew(source), toks |-> <<>>,
     ended |-> FALSE]

\* neither write_u24 nor read_u24 has been called
NoCall == [op |-> "none", n |-> 0, buf |-> <<>>, res |-> 0, panicked |-> FALSE]

\* a chunk on which write_constant has not been called
NoWrite == [chunk |-> ChunkNew, before |-> ChunkNew, value |-> Nil, line |-> 0]

UnitsIdle ==
    /\ scan = [own |-> Scanning(<<>>), nl |-> Scanning(<<>>)]
    /\ enc = [buf |-> <<>>, added |-> <<>>]
    /\ last = NoWrite
    /\ u24 = NoCall

\* no file is given
NoSource == [src |-> <<>>, val |-> Nil, arith |-> FALSE]

\* main(): no argument starts the REPL, one argument runs a file
Init ==
    /\ build \in {"debug", "release"}
    /\ mode \in {"repl", "file"}
    /\ vm = VMNew
    /\ comp = ParserNew(<<>>)
    /\ pc = "idle"
    /\ ret = NoRet
    /\ stdout = <<>>
    /\ calls = 0
    /\ entry = [start |-> 0, steps |-> 0]
    /\ fresh = Idle(VMNew)
    /\ exit = -1
    /\ expect = NoSource
    /\ UnitsIdle

\* repl(): read_line returned a line, interpret_source is called on it.  A line
\* without its newline is the last one of the input.  The long line is the
\* first one of a session that has it.
ReplReadLine(line) ==
    /\ mode = "repl"
    /\ line = LongLine => calls = 0
    /\ pc \in {"idle", "returned"}
    /\ ~Running(fresh)
    /\ calls < MaxCalls
    /\ calls > 0 => comp.scanner.source[Len(comp.scanner.source)] = "\n"
    /\ SetM(InterpretSource(vm, line))
    /\ fresh' = InterpretSource(VMNew, line)
    /\ calls' = calls + 1
    /\ entry' = [start |-> Len(vm.chunk.code), steps |-> 0]
    /\ UNCHANGED <<build, mode, exit, expect, scan, enc, last, u24>>

\* repl(): read_line returned 0, main returns Ok
ReplEof ==
    /\ mode = "repl"
    /\ pc \in {"idle", "returned"}
    /\ ~Running(fresh)
    /\ pc' = "exited"
    /\ exit' = 0
    /\ UNCHANGED <<build, mode, vm, comp, ret, stdout, calls, entry, fresh, expect,
                   scan, enc, last, u24>>

\* run_file() up to the call of interpret_source on a new VM
RunFile(source) ==
    /\ mode = "file"
    /\ pc = "idle"
    /\ SetM(InterpretSource(VMNew, source))
    /\ calls' = calls + 1
    /\ entry' = [start |-> 0, steps |-> 0]
    /\ UNCHANGED <<build, mode, exit, fresh, expect, scan, enc, last, u24>>

\* the match of run_file() on what interpret_source returned: 101 is the exit
\* status of a Rust process that panicked, here in unreachable!()
ExitCode(r) ==
    IF r.k = "Ok" THEN 0
    ELSE IF r.err = "CompileError" THEN 65
    ELSE IF r.err = "RuntimeError" THEN 70
    ELSE 101

FileExit ==
    /\ mode = "file"
    /\ pc = "returned"
    /\ exit' = ExitCode(ret)
    /\ pc' = "exited"
    /\ UNCHANGED <<build, mode, vm, comp, ret, stdout, calls, entry, fresh, expect,
                   scan, enc, last, u24>>

FrameKinds == {"compile", "pp", "loop", "grouping", "unary", "binary", "end"}

\* a step of compile(), by the call on top of its call stack
Compile(k) ==
    /\ pc = "compile"
    /\ Top(M).k = k
    /\ SetM(CompileStep(M))
    /\ FreshStep
    /\ UNCHANGED <<build, mode, calls, entry, exit, expect, scan, enc, last, u24>>

\* an iteration of the loop of run()
Run ==
    /\ pc = "run"
    /\ SetM(RunStep(M, build))
    /\ FreshStep
    /\ entry' = [entry EXCEPT !.steps = @ + 1]
    /\ UNCHANGED <<build, mode, calls, exit, expect, scan, enc, last, u24>>

\* the fresh VM is still interpreting when the session's call has ended
FreshFinish ==
    /\ ~Running(M)
    /\ Running(fresh)
    /\ FreshStep
    /\ UNCHANGED <<build, mode, vm, comp, pc, ret, stdout, calls, entry, exit, expect,
                   scan, enc, last, u24>>

Next ==
    \/ \E line \in Lines : ReplReadLine(line)
    \/ ReplEof
    \/ \E source \in Lines : RunFile(source)
    \/ FileExit
    \/ \E k \in FrameKinds : Compile(k)
    \/ Run
    \/ FreshFinish

Spec == Init /\ [][Next]_vars

----------------------------------------------------------------------------
(* Expressions: sources derived from the grammar                             *)
(*     E ::= T | E + T | E - T      T ::= U | T * U | T / U                  *)
(*     U ::= P | - U                P ::= literal | ( E )                    *)
(* each with the value its derivation tree denotes.  The grammar is the      *)
(* reference: * and / bind tighter than + and -, unary minus tighter than    *)
(* both, parentheses override, equal precedence associates to the left.      *)

\* derivations nest at most this deep
MaxDepth == 2

\* and their source is at most this long
MaxLen == 5

Literals == {"1", "2", "3"}

Ex(src, val) == [src |-> src, val |-> val]

ApplyRef(op, a, b) ==
    CASE op = "+" -> f64_add(a, b)
      [] op = "-" -> f64_sub(a, b)
      [] op = "*" -> f64_mul(a, b)
      [] op = "/" -> f64_div(a, b)

BinEx(l, op, r) == Ex(l.src \o <<op>> \o r.src, ApplyRef(op, l.val, r.val))

\* the pairs of operands whose source, with k more bytes, is short enough
Fitting(L, R, k) == {p \in L \X R : Len(p[1].src) + Len(p[2].src) + k <= MaxLen}

\* the operands whose source, with k more bytes, is short enough
Short(S, k) == {e \in S : Len(e.src) + k <= MaxLen}

RECURSIVE GenE(_), GenT(_), GenU(_), GenP(_)
GenP(k) ==
    {Ex(<<c>>, F64(DigitValue[c])) : c \in Literals}
    \cup (IF k = 0 THEN {}
          ELSE {Ex(<<"(">> \o e.src \o <<")">>, e.val) : e \in Short(GenE(k - 1), 2)})

GenU(k) ==
    GenP(k)
    \cup (IF k = 0 THEN {}
          ELSE {Ex(<<"-">> \o u.src, f64_neg(u.val)) : u \in Short(GenU(k - 1), 1)})

GenT(k) ==
    GenU(k)
    \cup (IF k = 0 THEN {}
          ELSE {BinEx(p[1], op, p[2]) :
                  p \in Fitting(GenT(k - 1), GenU(k - 1), 1), op \in {"*", "/"}})

GenE(k) ==
    GenT(k)
    \cup (IF k = 0 THEN {}
          ELSE {BinEx(p[1], op, p[2]) :
                  p \in Fitting(GenE(k - 1), GenT(k - 1), 1), op \in {"+", "-"}})

\* a parenthesised binary expression as an operand of another operator
Grouped ==
    LET A == {Ex(<<c>>, F64(DigitValue[c])) : c \in Literals}
        Ops == {"+", "-", "*", "/"}
        G == {Ex(<<"(">> \o e.src \o <<")">>, e.val) :
                e \in {BinEx(a, op, b) : a \in A, op \in Ops, b \in {Ex(<<"2">>, F64(2))}}}
    IN {BinEx(g, op, c) : g \in G, op \in Ops, c \in {Ex(<<"3">>, F64(3))}}
       \cup {BinEx(c, op, g) : c \in {Ex(<<"3">>, F64(3))}, op \in Ops, g \in G}

\* 10 - 3 - 2, and -1 + 2 with its blanks
Written ==
    { Ex(<<"1", "0", " ", "-", " ", "3", " ", "-", " ", "2">>, F64(5)),
      Ex(<<"-", "1", " ", "+", " ", "2">>, F64(1)),
      Ex(<<"1", " ", "+", " ", "2", " ", "*", " ", "3">>, F64(7)),
      Ex(<<"(", "1", " ", "+", " ", "2", ")", " ", "*", " ", "3">>, F64(9)),
      Ex(<<"1", ".", "5", "*", "2">>, F64(3)) }

Arithmetic == GenE(MaxDepth) \cup Grouped \cup Written

\* STACK_MAX times "1+(" around a 1: as many pending operands and one more
Nested(n) ==
    [i \in 1..(4 * n + 2) |->
        IF i <= 3 * n THEN <<"1", "+", "(">>[((i - 1) % 3) + 1]
        ELSE IF i = 3 * n + 1 THEN "1"
        ELSE IF i <= 4 * n + 1 THEN ")"
        ELSE "\n"]

\* expressions over the other operators and literals, with their values
Others ==
    { [src |-> <<"n", "i", "l", "\n">>, val |-> Nil],
      [src |-> <<"!", "n", "i", "l", "\n">>, val |-> Bool(TRUE)],
      [src |-> <<"!", "!", "1", "\n">>, val |-> Bool(TRUE)],
      [src |-> <<"t", "r", "u", "e", "=", "=", "f", "a", "l", "s", "e", "\n">>,
       val |-> Bool(FALSE)],
      [src |-> <<"1", "<", "2", "\n">>, val |-> Bool(TRUE)],
      [src |-> <<"1", ">", "2", "\n">>, val |-> Bool(FALSE)],
      [src |-> <<"1", "<", "=", "2", "\n">>, val |-> Bool(TRUE)],
      [src |-> <<"2", ">", "=", "2", "\n">>, val |-> Bool(TRUE)],
      [src |-> <<"1", "!", "=", "2", "\n">>, val |-> Bool(TRUE)],
      [src |-> <<"1", "+", "2", "=", "=", "3", "\n">>, val |-> Bool(TRUE)] }

\* the operands of the comparisons: two numbers and a NaN
CmpOperands ==
    { [src |-> <<"1">>, val |-> F64(1), div |-> FALSE],
      [src |-> <<"2">>, val |-> F64(2), div |-> FALSE],
      [src |-> <<"0", "/", "0">>, val |-> NaN, div |-> TRUE] }

\* the code of an operand whose first constant gets index base
OperandCode(o, base) ==
    IF o.div THEN <<OpConstant, base, OpConstant, base + 1, OpDivide>>
    ELSE <<OpConstant, base>>

OperandConstants(o) == IF o.div THEN 2 ELSE 1

\* the operators !=, >= and <=, each with the comparison it is the negation of
CmpOps ==
    { [src |-> <<"!", "=">>, plain |-> OpEqual],
      [src |-> <<">", "=">>, plain |-> OpLess],
      [src |-> <<"<", "=">>, plain |-> OpGreater] }

\* a == b, a < b, a > b on f64
Plain(op, a, b) ==
    CASE op = OpEqual -> f64_eq(a, b)
      [] op = OpLess -> f64_lt(a, b)
      [] op = OpGreater -> f64_lt(b, a)

\* a op b on a line of its own, with the code of a, the code of b, the plain
\* comparison and a Not, and with the negation of the plain comparison as value
Comparisons ==
    {[src |-> a.src \o op.src \o b.src \o <<"\n">>,
      code |-> OperandCode(a, 0) \o OperandCode(b, OperandConstants(a))
                    \o <<op.plain, OpNot, OpReturn>>,
      val |-> Bool(~Plain(op.plain, a.val, b.val))] :
        a \in CmpOperands, b \in CmpOperands, op \in CmpOps}

\* !(1 < 2) == (1 >= 2)
NotLessIsGreaterEqual ==
    <<"!", "(", "1", "<", "2", ")", "=", "=", "(", "1", ">", "=", "2", ")", "\n">>

\* files whose expression is followed by a token that is not Eof, or lacks its
\* closing parenthesis
Malformed ==
    { <<"1", " ", "2", "\n">>,
      <<"1", ")", "\n">>,
      <<"(", "1", "+", "2", "\n">>,
      <<"(", "1", "\n">>,
      <<"1", " ", "n", "i", "l", "\n">> }

\* files whose expression applies an operator to nil, over several lines, each
\* with the line of the byte that follows the failing opcode
TypeErrors ==
    { [src |-> <<"1", "+", "\n", "n", "i", "l", "\n">>, line |-> 3],
      [src |-> <<"n", "i", "l", "\n", "-", "1", "\n">>, line |-> 3],
      [src |-> <<"-", "\n", "n", "i", "l", "\n">>, line |-> 3],
      [src |-> <<"-", "n", "i", "l", "\n", "+", "\n", "1", "\n">>, line |-> 3],
      [src |-> <<"(", "1", "*", "n", "i", "l", ")", "\n", "+", "2", "\n">>, line |-> 2],
      [src |-> <<"1", "/", "n", "i", "l", "\n">>, line |-> 2],
      [src |-> <<"n", "i", "l", "<", "1", "\n", "\n">>, line |-> 3],
      [src |-> <<"\n", "1", ">", "n", "i", "l", ")">>, line |-> 2],
      [src |-> <<"(", "1", ">", "=", "n", "i", "l", ")", "\n">>, line |-> 1] }

\* the tokens that are no operator and start no operand, as the scanner spells
\* them
OtherTokens ==
    {
      [lexeme |-> <<")">>, ty |-> "RightParen"],
      [lexeme |-> <<"{">>, ty |-> "LeftBrace"],
      [lexeme |-> <<"}">>, ty |-> "RightBrace"],
      [lexeme |-> <<",">>, ty |-> "Comma"],
      [lexeme |-> <<".">>, ty |-> "Dot"],
      [lexeme |-> <<";">>, ty |-> "Semicolon"],
      [lexeme |-> <<"=">>, ty |-> "Equal"],
      [lexeme |-> <<"x">>, ty |-> "Identifier"],
      [lexeme |-> <<"a", "n", "d">>, ty |-> "And"],
      [lexeme |-> <<"c", "l", "a", "s", "s">>, ty |-> "Class"],
      [lexeme |-> <<"e", "l", "s", "e">>, ty |-> "Else"],
      [lexeme |-> <<"f", "o", "r">>, ty |-> "For"],
      [lexeme |-> <<"f", "u", "n">>, ty |-> "Fun"],
      [lexeme |-> <<"i", "f">>, ty |-> "If"],
      [lexeme |-> <<"o", "r">>, ty |-> "Or"],
      [lexeme |-> <<"p", "r", "i", "n", "t">>, ty |-> "Print"],
      [lexeme |-> <<"r", "e", "t", "u", "r", "n">>, ty |-> "Return"],
      [lexeme |-> <<"s", "u", "p", "e", "r">>, ty |-> "Super"],
      [lexeme |-> <<"t", "h", "i", "s">>, ty |-> "This"],
      [lexeme |-> <<"v", "a", "r">>, ty |-> "Var"],
      [lexeme |-> <<"w", "h", "i", "l", "e">>, ty |-> "While"],
      [lexeme |-> <<"?">>, ty |-> "QuestionMark"],
      [lexeme |-> <<":">>, ty |-> "Colon"] }

\* files that hold the operand 1 followed by one of these tokens
OperandThen ==
    {[src |-> <<"1", " ">> \o t.lexeme \o <<"\n">>, ty |-> t.ty] : t \in OtherTokens}

\* files without an expression: nothing, white space, line comments
Blank ==
    { <<>>,
      <<" ">>,
      <<"\n">>,
      <<" ", "\t", "\r", "\n">>,
      <<"/", "/">>,
      <<"/", "/", "1", "\n">>,
      <<"/", "/", " ", "1", "+", "2">>,
      <<"\n", "/", "/", "a", "\n", " ", "/", "/", "\n">> }

\* the files: an expression, followed by a newline or ending at its last byte,
\* or no expression at all
Sources ==
    {[src |-> e.src \o t, val |-> Number(e.val), arith |-> TRUE] :
        e \in Arithmetic, t \in {<<>>, <<"\n">>}}
    \cup {[src |-> e.src, val |-> e.val, arith |-> FALSE] : e \in Others}
    \cup {[src |-> Nested(STACK_MAX), val |-> Number(F64(STACK_MAX + 1)), arith |-> TRUE]}
    \cup {[src |-> LongSum(U8Max + 2), val |-> Number(F64(U8Max + 3)), arith |-> FALSE]}
    \cup {[src |-> b, val |-> Nil, arith |-> FALSE] : b \in Blank}
    \cup {[src |-> c.src, val |-> c.val, arith |-> FALSE] : c \in Comparisons}
    \cup {[src |-> NotLessIsGreaterEqual, val |-> Bool(TRUE), arith |-> FALSE]}
    \cup {[src |-> b, val |-> Nil, arith |-> FALSE] : b \in Malformed}
    \cup {[src |-> t.src, val |-> Nil, arith |-> FALSE] : t \in TypeErrors}
    \cup {[src |-> t.src, val |-> Nil, arith |-> FALSE] : t \in OperandThen}

\* run_file on a file that holds one of the expressions
InitExpr ==
    /\ build \in {"debug", "release"}
    /\ mode = "file"
    /\ vm = VMNew
    /\ comp = ParserNew(<<>>)
    /\ pc = "idle"
    /\ ret = NoRet
    /\ stdout = <<>>
    /\ calls = 0
    /\ entry = [start |-> 0, steps |-> 0]
    /\ fresh = Idle(VMNew)
    /\ exit = -1
    /\ expect \in Sources
    /\ UnitsIdle

NextExpr ==
    \/ RunFile(expect.src)
    \/ \E k \in FrameKinds : Compile(k)
    \/ Run
    \/ FileExit

SpecExpr == InitExpr /\ [][NextExpr]_vars

----------------------------------------------------------------------------
(* The scanner alone: scan_token called until Eof, as Parser::advance does,  *)
(* on a source and on the same source followed by a newline                  *)

\* sources are at most this long
MaxSource == 4

ScanAlphabet == {"1", ".", "n", "i", "l", " ", "\n", "\""}

RECURSIVE SeqsUpTo(_, _)
SeqsUpTo(S, n) ==
    IF n = 0 THEN {<<>>}
    ELSE LET R == SeqsUpTo(S, n - 1) IN
         R \cup {Append(r, x) : r \in {q \in R : Len(q) = n - 1}, x \in S}

ScanSources == SeqsUpTo(ScanAlphabet, MaxSource)

\* the call of scan_token returned r
Scanned(st, r) ==
    [scanner |-> r.sc, prev |-> st.scanner, toks |-> Append(st.toks, r.res),
     ended |-> r.res.kind = "Hang" \/ (r.res.kind = "Ok" /\ r.res.ty = "Eof")]

ScanOn(st) == IF st.ended THEN st ELSE Scanned(st, scan_token(st.scanner))

InitScan ==
    /\ \E source \in ScanSources :
          scan = [own |-> Scanning(source), nl |-> Scanning(source \o <<"\n">>)]
    /\ build = "debug"
    /\ mode = "scan"
    /\ vm = VMNew
    /\ comp = ParserNew(<<>>)
    /\ pc = "idle"
    /\ ret = NoRet
    /\ stdout = <<>>
    /\ calls = 0
    /\ entry = [start |-> 0, steps |-> 0]
    /\ fresh = Idle(VMNew)
    /\ exit = -1
    /\ expect = NoSource
    /\ enc = [buf |-> <<>>, added |-> <<>>]
    /\ last = NoWrite
    /\ u24 = NoCall

\* the next call of scan_token on both scanners
ScanToken ==
    /\ mode = "scan"
    /\ ~(scan.own.ended /\ scan.nl.ended)
    /\ scan' = [own |-> ScanOn(scan.own), nl |-> ScanOn(scan.nl)]
    /\ UNCHANGED <<build, mode, vm, comp, pc, ret, stdout, calls, entry, fresh, exit,
                   expect, enc, last, u24>>

NextScan == ScanToken

SpecScan == InitScan /\ [][NextScan]_vars

----------------------------------------------------------------------------
(* The line table alone: LineEncoding::add called on a new table.  The line  *)
(* numbers are free for the first FreeAdds calls and the last FreeAdds       *)
(* calls; between them the calls repeat one line number, which makes a run   *)
(* that no single count byte holds.                                          *)

\* calls of add
MaxAdds == 258

\* calls at either end whose line number is free
FreeAdds == 2

\* 300 does not fit one byte
LineNumbers == {1, 2, 300}

InitLines ==
    /\ enc = [buf |-> <<>>, added |-> <<>>]
    /\ build = "debug"
    /\ mode = "lines"
    /\ vm = VMNew
    /\ comp = ParserNew(<<>>)
    /\ pc = "idle"
    /\ ret = NoRet
    /\ stdout = <<>>
    /\ calls = 0
    /\ entry = [start |-> 0, steps |-> 0]
    /\ fresh = Idle(VMNew)
    /\ exit = -1
    /\ expect = NoSource
    /\ scan = [own |-> Scanning(<<>>), nl |-> Scanning(<<>>)]
    /\ last = NoWrite
    /\ u24 = NoCall

\* add(line_number)
LineAdd(line_number) ==
    /\ mode = "lines"
    /\ Len(enc.added) < MaxAdds
    /\ (Len(enc.added) >= FreeAdds /\ Len(enc.added) < MaxAdds - FreeAdds) =>
            line_number = enc.added[Len(enc.added)]
    /\ enc' = [buf |-> LineEncodingAdd(enc.buf, line_number),
               added |-> Append(enc.added, line_number)]
    /\ UNCHANGED <<build, mode, vm, comp, pc, ret, stdout, calls, entry, fresh, exit,
                   expect, scan, last, u24>>

NextLines == \E line_number \in LineNumbers : LineAdd(line_number)

SpecLines == InitLines /\ [][NextLines]_vars

----------------------------------------------------------------------------
(* The chunk alone: Chunk::write_constant called on a new chunk until the    *)
(* pool is past the one-byte indices.  Value and line are free for the       *)
(* first FreeWrites calls and from the last one-byte indices on; between     *)
(* them the calls repeat one value on one line.                              *)

\* calls of write_constant
MaxConstants == 258

\* calls at the start whose value and line are free
FreeWrites == 1

\* the pool size from which they are free again
FreeFrom == 254

ChunkValues == {Number(F64(1)), Nil}

ChunkLines == {1, 7}

InitChunk ==
    /\ last = NoWrite
    /\ u24 = NoCall
    /\ build = "debug"
    /\ mode = "chunk"
    /\ vm = VMNew
    /\ comp = ParserNew(<<>>)
    /\ pc = "idle"
    /\ ret = NoRet
    /\ stdout = <<>>
    /\ calls = 0
    /\ entry = [start |-> 0, steps |-> 0]
    /\ fresh = Idle(VMNew)
    /\ exit = -1
    /\ expect = NoSource
    /\ scan = [own |-> Scanning(<<>>), nl |-> Scanning(<<>>)]
    /\ enc = [buf |-> <<>>, added |-> <<>>]

\* write_constant(value, line)
WriteConstant(value, line) ==
    /\ mode = "chunk"
    /\ Len(last.chunk.constants) < MaxConstants
    /\ (Len(last.chunk.constants) >= FreeWrites /\ Len(last.chunk.constants) < FreeFrom) =>
            (value = Number(F64(1)) /\ line = 1)
    /\ last' = [chunk |-> write_constant(last.chunk, value, line),
                before |-> last.chunk, value |-> value, line |-> line]
    /\ UNCHANGED <<build, mode, vm, comp, pc, ret, stdout, calls, entry, fresh, exit,
                   expect, scan, enc, u24>>

NextChunk == \E value \in ChunkValues, line \in ChunkLines : WriteConstant(value, line)

SpecChunk == InitChunk /\ [][NextChunk]_vars

----------------------------------------------------------------------------
(* write_u24 and read_u24 alone, each called once as the tests of chunk.rs   *)
(* call them, and read_u24 on what write_u24 returned                        *)

\* the bytes the numbers and the buffers are made of
ByteSamples == {0, 1, 4, 16, 17, 30, 255}

\* the u32 arguments of write_u24: every three sampled bytes, under a fourth
\* byte that is 0, 1 or 127
U24Numbers ==
    {16777216 * d + 65536 * a + 256 * b + c :
        d \in {0, 1, 127}, a \in ByteSamples, b \in ByteSamples, c \in ByteSamples}

\* the slices handed to read_u24: two, three and four sampled bytes
U24Buffers ==
    {<<a, b>> : a \in ByteSamples, b \in ByteSamples}
    \cup {<<a, b, c>> : a \in ByteSamples, b \in ByteSamples, c \in ByteSamples}
    \cup {<<a, b, c, d>> : a \in ByteSamples, b \in ByteSamples, c \in ByteSamples,
                           d \in ByteSamples}

InitU24 ==
    /\ u24 = NoCall
    /\ build = "debug"
    /\ mode = "u24"
    /\ vm = VMNew
    /\ comp = ParserNew(<<>>)
    /\ pc = "idle"
    /\ ret = NoRet
    /\ stdout = <<>>
    /\ calls = 0
    /\ entry = [start |-> 0, steps |-> 0]
    /\ fresh = Idle(VMNew)
    /\ exit = -1
    /\ expect = NoSource
    /\ scan = [own |-> Scanning(<<>>), nl |-> Scanning(<<>>)]
    /\ enc = [buf |-> <<>>, added |-> <<>>]
    /\ last = NoWrite

\* write_u24(n)
WriteU24(n) ==
    /\ mode = "u24"
    /\ u24.op = "none"
    /\ u24' = [op |-> "write_u24", n |-> n,
               buf |-> IF write_u24_panics(n) THEN <<>> ELSE write_u24(n),
               res |-> 0, panicked |-> write_u24_panics(n)]
    /\ UNCHANGED <<build, mode, vm, comp, pc, ret, stdout, calls, entry, fresh, exit,
                   expect, scan, enc, last>>

\* read_u24(&buf)
ReadU24(buf) ==
    /\ mode = "u24"
    /\ u24.op = "none"
    /\ u24' = [op |-> "read_u24", n |-> 0, buf |-> buf,
               res |-> IF read_u24_panics(buf) THEN 0 ELSE read_u24(buf),
               panicked |-> read_u24_panics(buf)]
    /\ UNCHANGED <<build, mode, vm, comp, pc, ret, stdout, calls, entry, fresh, exit,
                   expect, scan, enc, last>>

\* read_u24(&write_u24(n))
ReadBack ==
    /\ mode = "u24"
    /\ u24.op = "write_u24"
    /\ ~u24.panicked
    /\ u24' = [op |-> "read_back", n |-> u24.n, buf |-> u24.buf,
               res |-> IF read_u24_panics(u24.buf) THEN 0 ELSE read_u24(u24.buf),
               panicked |-> read_u24_panics(u24.buf)]
    /\ UNCHANGED <<build, mode, vm, comp, pc, ret, stdout, calls, entry, fresh, exit,
                   expect, scan, enc, last>>

NextU24 ==
    \/ \E n \in U24Numbers : WriteU24(n)
    \/ \E buf \in U24Buffers : ReadU24(buf)
    \/ ReadBack

SpecU24 == InitU24 /\ [][NextU24]_vars

----------------------------------------------------------------------------
(* The VM driven by hand: constants and one opcode are written onto its chunk *)
(* with VM::write_constant and VM::write_opcode, then interpret_source        *)
(* compiles `nil` behind them and run() executes the whole chunk              *)

\* at most this many constants are written before the opcode
MaxOperands == 2

\* the values written: every tag, with zero, NaN and the empty string
VmValues ==
    {Nil, Bool(TRUE), Bool(FALSE), Number(F64(0)), Number(F64(1)), Number(F64(2)),
     Number(F64(3)), Number(F64(10)), Number(NaN), Str(<<>>), Str(<<"a">>), Str(<<"b">>)}

\* enum OpCode
OpCodes == OpReturn .. OpNot

\* the source interpret_source is called on
VmSource == <<"n", "i", "l", "\n">>

InitVm ==
    /\ build \in {"debug", "release"}
    /\ mode = "vm"
    /\ vm = VMNew
    /\ comp = ParserNew(<<>>)
    /\ pc = "idle"
    /\ ret = NoRet
    /\ stdout = <<>>
    /\ calls = 0
    /\ entry = [start |-> 0, steps |-> 0]
    /\ fresh = Idle(VMNew)
    /\ exit = -1
    /\ expect = NoSource
    /\ UnitsIdle

\* VM::write_constant(value, 1), before any opcode is written
VmWriteConstant(value) ==
    /\ mode = "vm"
    /\ pc = "idle"
    /\ Len(vm.chunk.constants) < MaxOperands
    /\ Len(vm.chunk.code) = 2 * Len(vm.chunk.constants)
    /\ vm' = [vm EXCEPT !.chunk = write_constant(@, value, 1)]
    /\ UNCHANGED <<build, mode, comp, pc, ret, stdout, calls, entry, fresh, exit,
                   expect, scan, enc, last, u24>>

\* VM::write_opcode(opcode, 1), once
VmWriteOpcode(opcode) ==
    /\ mode = "vm"
    /\ pc = "idle"
    /\ Len(vm.chunk.code) = 2 * Len(vm.chunk.constants)
    /\ vm' = [vm EXCEPT !.chunk = ChunkWrite(@, opcode, 1)]
    /\ UNCHANGED <<build, mode, comp, pc, ret, stdout, calls, entry, fresh, exit,
                   expect, scan, enc, last, u24>>

\* VM::interpret_source on the VM the opcode was written to
VmInterpret ==
    /\ mode = "vm"
    /\ pc = "idle"
    /\ Len(vm.chunk.code) = 2 * Len(vm.chunk.constants) + 1
    /\ SetM(InterpretSource(vm, VmSource))
    /\ calls' = calls + 1
    /\ entry' = [start |-> Len(vm.chunk.code), steps |-> 0]
    /\ UNCHANGED <<build, mode, exit, fresh, expect, scan, enc, last, u24>>

NextVm ==
    \/ \E value \in VmValues : VmWriteConstant(value)
    \/ \E opcode \in OpCodes : VmWriteOpcode(opcode)
    \/ VmInterpret
    \/ \E k \in FrameKinds : Compile(k)
    \/ Run

SpecVm == InitVm /\ [][NextVm]_vars

----------------------------------------------------------------------------
(* Properties of interpret_source, the REPL and the file runner *)

\* the call of interpret_source has ended, by returning or otherwise
Ended(m) == m.pc \in {"returned", "hang", "panic"}

\* what the caller of interpret_source sees of a call
Outcome(m) == [pc |-> m.pc, ret |-> m.ret, stdout |-> m.stdout]

\* C1: every call of interpret_source on the session's VM has the outcome
\* (printed value or error) that its line has on a fresh VM, and the run loop of
\* every call starts at the first byte compiled for its line with an empty stack
C1_LinesIndependent ==
    /\ (mode = "repl" /\ Ended(M) /\ Ended(fresh)) => Outcome(M) = Outcome(fresh)
    /\ (mode = "repl" /\ pc = "run" /\ entry.steps = 0) =>
            /\ vm.ip = entry.start
            /\ vm.stack = <<>>

\* the run loop of a second call starts on the stack that a failed first call left
C1_AfterError ==
    /\ mode = "repl"
    /\ calls = 2
    /\ pc = "run"
    /\ entry.steps = 0
    /\ vm.stack # <<>>

\* C2: when compile() records an error (had_error), interpret_source returns
\* a CompileError, and run() is not entered and nothing is printed
C2_CompileErrorReturned ==
    /\ (calls = 1 /\ pc = "returned" /\ comp.had_error) =>
            /\ ret.k = "Err"
            /\ ret.err = "CompileError"
            /\ stdout = <<>>
    /\ (calls = 1 /\ pc = "run") => ~comp.had_error

\* compile() has returned with had_error set
C2_HadError == calls = 1 /\ pc = "returned" /\ comp.had_error

\* run() failed in the context(error::TypeError { .. }) of a conversion
TypeErrorHit(r) == r.k = "Err" /\ r.err = "TypeError"

\* the kinds run_file tells apart
RuntimeKind(r) == r.k = "Err" /\ r.err = "RuntimeError"

CompileKind(r) == r.k = "Err" /\ r.err = "CompileError"

\* C3: a type error met by run() is returned as Error::RuntimeError, which
\* run_file maps to exit code 70, and a CompileError to exit code 65
C3_TypeErrorIsRuntime ==
    /\ (calls = 1 /\ pc \in {"returned", "exited"} /\ TypeErrorHit(ret)) =>
            /\ RuntimeKind(ret)
            /\ (mode = "file" /\ pc = "exited") => exit = 70
    /\ (mode = "file" /\ pc = "exited" /\ RuntimeKind(ret)) => exit = 70
    /\ (mode = "file" /\ pc = "exited" /\ CompileKind(ret)) => exit = 65

\* run_file has matched on a result that carries a type error
C3_TypeErrorExit ==
    /\ mode = "file"
    /\ pc = "exited"
    /\ ret.k = "Err"
    /\ ret.err = "TypeError"

----------------------------------------------------------------------------
(* Properties of compiled expressions *)

\* C5: the chunk compiled from an arithmetic expression, run, yields the value
\* of the reference evaluation: * and / before + and -, unary minus before
\* both, parentheses first, equal precedence from the left
C5_ReferenceValue ==
    (expect.arith /\ pc \in {"returned", "hang", "panic", "exited"}) =>
        /\ pc \in {"returned", "exited"}
        /\ ret.k = "Ok"
        /\ stdout = <<expect.val>>

\* an expression whose last byte is a digit has been interpreted
C5_EndsInLiteral ==
    /\ expect.arith
    /\ pc = "returned"
    /\ is_ascii_digit(expect.src[Len(expect.src)])

\* compile() returned Ok(true) and run() is about to read the last byte of the
\* chunk, the Return that end() emitted
AtFinalReturn ==
    /\ pc = "run"
    /\ comp.returned = "Ok(true)"
    /\ vm.ip = Len(vm.chunk.code) - 1

\* C7: after a successful compilation on a fresh VM the stack holds exactly one
\* value when run() reaches the final Return, and that Return pops it, prints
\* it and ends run() with Ok, leaving the stack empty
C7_OneValueAtReturn ==
    [][AtFinalReturn =>
        /\ Len(vm.stack) = 1
        /\ pc' = "returned"
        /\ ret'.k = "Ok"
        /\ stdout' = Append(stdout, vm.stack[1])
        /\ vm'.stack = <<>>]_vars

\* the final Return of a compiled expression has been executed
C7_Returned ==
    /\ pc = "returned"
    /\ comp.returned = "Ok(true)"
    /\ ret.k = "Ok"
    /\ entry.steps > 3
    /\ vm.ip = Len(vm.chunk.code)

\* C8: while a successfully compiled program executes, the stack never holds
\* more than STACK_MAX values
C8_StackBounded ==
    (pc = "run" /\ comp.returned = "Ok(true)") => Len(vm.stack) <= STACK_MAX

\* the program with STACK_MAX nested operands is being executed
C8_DeepRunning ==
    /\ pc = "run"
    /\ comp.returned = "Ok(true)"
    /\ expect.src = Nested(STACK_MAX)
    /\ Len(vm.stack) = STACK_MAX

----------------------------------------------------------------------------
(* Properties of the scanner *)

\* the last call of scan_token on the source
LastToken == scan.own.toks[Len(scan.own.toks)]

\* the last call met a '"' at the start of its lexeme
OnString ==
    /\ scan.own.toks # <<>>
    /\ scan.own.scanner.start < Len(scan.own.scanner.source)
    /\ scan.own.scanner.source[scan.own.scanner.start + 1] = "\""
    /\ scan.own.scanner.start = skip_whitespace(scan.own.prev).current

\* the positions of the quotes after the opening one
Closing ==
    {q \in (scan.own.scanner.start + 2)..Len(scan.own.scanner.source) :
        scan.own.scanner.source[q] = "\""}

FirstClosing == CHOOSE q \in Closing : \A r \in Closing : q <= r

NewlinesIn(w) == Cardinality({i \in 1..Len(w) : w[i] = "\n"})

\* C4: every call of scan_token returns; on a string literal with a closing
\* quote it returns a Str token whose lexeme runs from the opening quote to the
\* closing one, the line counter raised by the newlines inside; on a string
\* literal without one it returns ScanError "Unterminated string"
C4_StringScanned ==
    /\ \A i \in 1..Len(scan.own.toks) : scan.own.toks[i].kind # "Hang"
    /\ (OnString /\ Closing # {}) =>
            /\ LastToken.kind = "Ok"
            /\ LastToken.ty = "Str"
            /\ LastToken.lexeme = SubSeq(scan.own.scanner.source,
                                         scan.own.scanner.start + 1, FirstClosing)
            /\ scan.own.scanner.line =
                  skip_whitespace(scan.own.prev).line + NewlinesIn(LastToken.lexeme)
    /\ (OnString /\ Closing = {}) =>
            /\ LastToken.kind = "Err"
            /\ LastToken.msg = "Unterminated string"

\* scan_token has been called on a string literal that has its closing quote
C4_ClosedString == OnString /\ Closing # {}

\* the types and lexemes of what the calls returned
Shape(toks) == [i \in 1..Len(toks) |-> <<toks[i].kind, toks[i].ty, toks[i].lexeme>>]

\* the source ends in the last byte of a number, identifier or keyword
EndsInLexeme(source) ==
    /\ source # <<>>
    /\ is_ascii_digit(source[Len(source)]) \/ is_ascii_alphabetic(source[Len(source)])
    /\ \A i \in 1..Len(source) : source[i] # "\""

\* C6: a source that ends in the last byte of a number, identifier or keyword
\* yields the token types and lexemes that it yields when a newline follows,
\* and no ScanError
C6_SameAtEnd ==
    (scan.own.ended /\ scan.nl.ended /\ EndsInLexeme(scan.own.scanner.source)) =>
        /\ Shape(scan.own.toks) = Shape(scan.nl.toks)
        /\ \A i \in 1..Len(scan.own.toks) : scan.own.toks[i].kind = "Ok"

\* both scans of a source that ends in a lexeme have reached Eof
C6_BothEnded ==
    /\ scan.own.ended
    /\ scan.nl.ended
    /\ EndsInLexeme(scan.own.scanner.source)
    /\ LastToken.ty = "Eof"

----------------------------------------------------------------------------
(* Properties of the line table and of the chunk *)

\* C9: after add(l1), ..., add(ln) in this order, get(k) is l(k+1) for every
\* k in [0, n), whatever the length of the runs of equal line numbers
C9_GetReturnsAdded ==
    \A k \in 0..(Len(enc.added) - 1) : LineEncodingGet(enc.buf, k) = enc.added[k + 1]

\* more than 255 equal line numbers have been added in a row
C9_LongRun ==
    /\ Len(enc.added) > 256
    /\ \A k \in 2..257 : enc.added[k] = enc.added[2]
    /\ Len(enc.buf) > 5

\* the bytes the last write_constant appended to the code
Emitted == SubSeq(last.chunk.code, Len(last.before.code) + 1, Len(last.chunk.code))

\* the index the last write_constant gave its value
Idx == Len(last.before.constants)

\* C10: write_constant(value, line) appends value to the pool at index idx and
\* emits OpConstant and the byte idx when idx <= 255, otherwise OpConstantLong
\* and the three bytes of idx, most significant first; get_line_number gives
\* `line` for every emitted byte
C10_WriteConstant ==
    last.chunk.constants # <<>> =>
        /\ last.chunk.constants = Append(last.before.constants, last.value)
        /\ last.chunk.code = last.before.code \o Emitted
        /\ Idx <= 255 => Emitted = <<OpConstant, Idx>>
        /\ Idx > 255 =>
              /\ Len(Emitted) = 4
              /\ Emitted[1] = OpConstantLong
              /\ \A i \in 2..4 : Emitted[i] \in 0..255
              /\ 65536 * Emitted[2] + 256 * Emitted[3] + Emitted[4] = Idx
        /\ \A i \in Len(last.before.code)..(Len(last.chunk.code) - 1) :
              get_line_number(last.chunk, i) = last.line

\* write_constant has emitted the long form, on a line other than the one before
C10_LongForm ==
    /\ Idx > 255
    /\ last.chunk.constants # <<>>
    /\ last.line = 7
    /\ Len(Emitted) = 4

\* C11, as stated: the write_constant call that brings the pool to exactly 256
\* entries emits ConstantLong
C11_LongAt256 ==
    Len(last.chunk.constants) = 256 => Emitted[1] = OpConstantLong

\* C11, as the code has it: the 256th constant has index 255 and is emitted as
\* Constant with operand byte 255; the 257th, index 256, is the first emitted
\* as ConstantLong
C11_LongFrom257 ==
    /\ Len(last.chunk.constants) = 256 => Emitted = <<OpConstant, 255>>
    /\ Len(last.chunk.constants) = 257 => Emitted = <<OpConstantLong, 0, 1, 0>>

\* the pool holds exactly 256 entries
C11_Pool256 == Len(last.chunk.constants) = 256 /\ Len(Emitted) = 2

----------------------------------------------------------------------------
(* Properties of the wire encoding of constant indices *)

\* run() is about to execute a ConstantLong whose three operand bytes are there
AtConstantLong ==
    /\ pc = "run"
    /\ vm.ip + 3 < Len(vm.chunk.code)
    /\ vm.chunk.code[vm.ip + 1] = OpConstantLong

\* the 24-bit big-endian integer of the three bytes after the opcode at ip
OperandU24 ==
    65536 * vm.chunk.code[vm.ip + 2] + 256 * vm.chunk.code[vm.ip + 3]
        + vm.chunk.code[vm.ip + 4]

\* C12: executing ConstantLong pushes constants[n], n the 24-bit big-endian
\* integer of the three operand bytes, and leaves ip past them; so the value
\* that write_constant added at an index above 255 is the value pushed
C12_LongPushesConstant ==
    [][AtConstantLong =>
        /\ OperandU24 < Len(vm.chunk.constants)
        /\ pc' = "run"
        /\ vm'.ip = vm.ip + 4
        /\ vm'.stack = Append(vm.stack, vm.chunk.constants[OperandU24 + 1])]_vars

\* a ConstantLong that write_constant emitted is about to be executed
C12_AtLong == AtConstantLong /\ comp.returned = "Ok(true)" /\ OperandU24 > U8Max

\* C13: for n up to 0xffffff write_u24(n) returns three bytes, the big-endian
\* encoding of n, and read_u24 of them is n; for n above 0xffffff write_u24
\* fails in its assertion
C13_WriteU24 ==
    /\ (u24.op = "write_u24" /\ u24.n <= 16777215) =>
            /\ ~u24.panicked
            /\ Len(u24.buf) = 3
            /\ \A i \in 1..3 : u24.buf[i] \in 0..255
            /\ 65536 * u24.buf[1] + 256 * u24.buf[2] + u24.buf[3] = u24.n
    /\ (u24.op = "write_u24" /\ u24.n = 30) => u24.buf = <<0, 0, 30>>
    /\ (u24.op = "write_u24" /\ u24.n > 16777215) => u24.panicked
    /\ u24.op = "read_back" => (~u24.panicked /\ u24.res = u24.n)

\* a number that needs all three bytes has been written and read back
C13_ReadBack == u24.op = "read_back" /\ u24.n > 65535 /\ u24.n % 256 # 0

\* C14: read_u24 of four bytes [b0, b1, b2, b3] returns the 24-bit big-endian
\* value of b1, b2, b3 when b0 = 0, and fails in its assertion when b0 # 0
C14_ReadU24OfFour ==
    (u24.op = "read_u24" /\ Len(u24.buf) = 4) =>
        /\ u24.buf[1] = 0 =>
              /\ ~u24.panicked
              /\ u24.res = 65536 * u24.buf[2] + 256 * u24.buf[3] + u24.buf[4]
        /\ u24.buf[1] # 0 => u24.panicked

\* read_u24 has been called on [0x00, 0x11, 0x10, 0x04]
C14_ReadTestBuffer == u24.op = "read_u24" /\ u24.buf = <<0, 17, 16, 4>>

----------------------------------------------------------------------------
(* C15: a file without an expression *)

\* the call of interpret_source returned Err(err { msg }) out of compile()
CompileFailed(err, msg) ==
    /\ ret.k = "Err"
    /\ ret.err = err
    /\ ret.msg = msg
    /\ comp.returned = "Err"

\* C15 as stated: a source that is empty or holds only white space and line
\* comments ends in the ParseError "expected expression", and nothing is
\* executed or printed
C15_ExpectedExpression ==
    (expect.src \in Blank) =>
        /\ pc # "run"
        /\ stdout = <<>>
        /\ pc \in {"returned", "exited"} => CompileFailed("ParseError", "expected expression")

\* what the code does with such a source: compile() returns
\* Err(ParseRuleError "no prefix rule") for the Eof token; the run loop is never
\* entered, no byte is compiled and nothing is printed
BlankAborts ==
    (expect.src \in Blank) =>
        /\ pc \notin {"run", "hang", "panic"}
        /\ stdout = <<>>
        /\ vm.chunk.code = <<>>
        /\ vm.stack = <<>>
        /\ pc \in {"returned", "exited"} => CompileFailed("ParseRuleError", "no prefix rule")

\* the call on a file of white space and comments has returned
C15_BlankReturned ==
    /\ expect.src = <<"\n", "/", "/", "a", "\n", " ", "/", "/", "\n">>
    /\ pc = "returned"
    /\ comp.previous.ty = "Eof"

----------------------------------------------------------------------------
(* C16, C17: the arms of run() on operands of every tag *)

\* run() is about to execute instruction op on a stack of n values or more
AtOp(op, n) ==
    /\ pc = "run"
    /\ vm.ip < Len(vm.chunk.code)
    /\ vm.chunk.code[vm.ip + 1] = op
    /\ Len(vm.stack) >= n

\* the stack under its n topmost values
Under(n) == SubSeq(vm.stack, 1, Len(vm.stack) - n)

\* the value n places below the top of the stack
Operand(n) == vm.stack[Len(vm.stack) - n]

\* C16: OpAdd on a stack [.., left, right] replaces two strings by their
\* concatenation left right and two numbers by their sum; for every other
\* pair of tags run() ends in a TypeError and no result is pushed
C16_OpAdd ==
    [][AtOp(OpAdd, 2) =>
        LET left == Operand(1)
            right == Operand(0)
        IN
        CASE is_str(left) /\ is_str(right) ->
                /\ pc' = "run"
                /\ vm'.stack = Append(Under(2), Str(left.str \o right.str))
          [] is_number(left) /\ is_number(right) ->
                /\ pc' = "run"
                /\ vm'.stack = Append(Under(2), Number(f64_add(left.num, right.num)))
          [] OTHER ->
                /\ pc' = "returned"
                /\ ret'.k = "Err"
                /\ ret'.err = "TypeError"
                /\ vm'.stack \in {Under(1), Under(2)}]_vars

\* OpAdd has run on the strings a and b
C16_Added ==
    /\ pc = "run"
    /\ vm.ip > 0
    /\ vm.chunk.code[vm.ip] = OpAdd
    /\ vm.chunk.constants = <<Str(<<"a">>), Str(<<"b">>)>>
    /\ vm.stack = <<Str(<<"a", "b">>)>>

\* C17: OpNot replaces the value on top of the stack by Bool(true) when it is
\* Nil or Bool(false) and by Bool(false) when it is anything else, the number 0
\* and the empty string included, and never ends in a type error
C17_OpNot ==
    [][/\ AtOp(OpNot, 1) =>
            /\ pc' = "run"
            /\ vm'.stack = Append(Under(1),
                    Bool(Operand(0).tag = "Nil"
                         \/ (Operand(0).tag = "Bool" /\ Operand(0).b = FALSE)))
       /\ AtOp(OpNot, 0) => ret'.err # "TypeError"]_vars

\* OpNot has run on the empty string, pushed above the number 0
C17_NotOfZero ==
    /\ pc = "run"
    /\ vm.ip > 0
    /\ vm.chunk.code[vm.ip] = OpNot
    /\ vm.chunk.constants = <<Number(F64(0)), Str(<<>>)>>
    /\ vm.stack = <<Number(F64(0)), Bool(FALSE)>>

----------------------------------------------------------------------------
(* C18: !=, >= and <= *)

\* C18: for a != b, a >= b and a <= b the compiler emits the code of a, the code
\* of b and then Equal Not, Less Not and Greater Not; the value printed is the
\* negation of a == b, a < b and a > b (true when an operand is NaN), and
\* !(1 < 2) == (1 >= 2) prints true
C18_NegatedComparisons ==
    /\ \A c \in Comparisons :
            expect.src = c.src =>
                /\ pc \notin {"hang", "panic"}
                /\ pc \in {"run", "returned", "exited"} => vm.chunk.code = c.code
                /\ pc \in {"returned", "exited"} => stdout = <<c.val>>
    /\ expect.src = NotLessIsGreaterEqual =>
            /\ pc \notin {"hang", "panic"}
            /\ pc \in {"returned", "exited"} => stdout = <<Bool(TRUE)>>

\* NaN >= 1 has printed true
C18_NaNGreaterEqual ==
    /\ expect.src = <<"0", "/", "0", ">", "=", "1", "\n">>
    /\ pc = "returned"
    /\ ret.k = "Ok"
    /\ stdout = <<Bool(TRUE)>>

----------------------------------------------------------------------------
(* C19, C20: diagnostics of the parser *)

\* C19: within a compile the first error, a scan error on the very first token
\* included, sets panic_mode and had_error together and prints one diagnostic,
\* and later errors print none: a parser in panic mode has had_error set and
\* has printed exactly one diagnostic
C19_PanicImpliesHadError ==
    comp.panic_mode => (comp.had_error /\ Len(comp.diag) = 1)

\* the scan error of an unterminated string on the first token has ended the
\* compile
C19_FirstTokenError ==
    /\ comp.scanner.source = <<"\"", "a", "\n">>
    /\ pc = "returned"
    /\ comp.previous.kind = "None"
    /\ comp.panic_mode

\* lines that hold a token without a prefix rule, or without an infix rule,
\* where one is needed
RuleLess ==
    { <<"1", " ", "+", " ", ")", "\n">>,
      <<"1", " ", "a", "n", "d", " ", "2", "\n">> }

\* C20: a token without the prefix or infix rule the parser needs is reported
\* as one diagnostic with had_error set, and compile() goes on to Eof and
\* returns false; it does not return an error early
C20_RuleErrorDiagnosed ==
    /\ ~(comp.returned = "Err" /\ ret.err = "ParseRuleError")
    /\ (comp.scanner.source \in RuleLess /\ pc \in {"run", "returned", "exited"}) =>
            /\ comp.had_error
            /\ Len(comp.diag) = 1
            /\ comp.returned = "Ok(false)"
            /\ comp.current.ty = "Eof"

\* compile() has returned on `and`, which has no infix rule
C20_AndAborted ==
    /\ comp.scanner.source = <<"1", " ", "a", "n", "d", " ", "2", "\n">>
    /\ pc = "returned"
    /\ comp.previous.ty = "And"

----------------------------------------------------------------------------
(* C21: what compile() returns *)

\* compile() of the call in progress returned Ok(true) or Ok(false)
ReturnedBool == comp.returned \in {"Ok(true)", "Ok(false)"}

\* the byte compile() appended last is Return
EndsInReturn ==
    /\ Len(vm.chunk.code) > entry.start
    /\ vm.chunk.code[Len(vm.chunk.code)] = OpReturn

----------------------------------------------------------------------------
(* C22: the binary opcodes *)

BinaryOps == {OpAdd, OpSubtract, OpMultiply, OpDivide, OpEqual, OpGreater, OpLess}

\* left op right
Applied(op, left, right) ==
    CASE op = OpAdd ->
            IF is_str(left) THEN Str(left.str \o right.str)
            ELSE Number(f64_add(left.num, right.num))
      [] op = OpSubtract -> Number(f64_sub(left.num, right.num))
      [] op = OpMultiply -> Number(f64_mul(left.num, right.num))
      [] op = OpDivide -> Number(f64_div(left.num, right.num))
      [] op = OpEqual -> Bool(ValueEq(left, right))
      [] op = OpGreater -> Bool(f64_lt(right.num, left.num))
      [] op = OpLess -> Bool(f64_lt(left.num, right.num))

\* C22: a binary opcode that succeeds on a stack [.., left, right] replaces
\* the two values by left op right, one value in all; it succeeds on two
\* numbers, Subtract on [10, 3] pushes 7 and Less on [1, 2] pushes true
C22_BinaryOps ==
    [][\A op \in BinaryOps :
          AtOp(op, 2) =>
            /\ pc' = "run" =>
                  /\ vm'.stack = Append(Under(2), Applied(op, Operand(1), Operand(0)))
                  /\ Len(vm'.stack) = Len(vm.stack) - 1
            /\ (is_number(Operand(1)) /\ is_number(Operand(0))) => pc' = "run"
            /\ op = OpEqual => pc' = "run"
            /\ (op = OpSubtract /\ vm.stack = <<Number(F64(10)), Number(F64(3))>>) =>
                  vm'.stack = <<Number(F64(7))>>
            /\ (op = OpLess /\ vm.stack = <<Number(F64(1)), Number(F64(2))>>) =>
                  vm'.stack = <<Bool(TRUE)>>]_vars

\* Subtract has run on 10 and 3
C22_Subtracted ==
    /\ pc = "run"
    /\ vm.ip > 0
    /\ vm.chunk.code[vm.ip] = OpSubtract
    /\ vm.chunk.constants = <<Number(F64(10)), Number(F64(3))>>
    /\ vm.stack = <<Number(F64(7))>>

----------------------------------------------------------------------------
(* C23: the line of a TypeError *)

\* the opcodes that convert their operands
TypedOps == {OpNegate, OpAdd, OpSubtract, OpMultiply, OpDivide, OpGreater, OpLess}

\* C23: a TypeError is raised by Negate, Add, Subtract, Multiply, Divide,
\* Greater or Less and carries get_line_number(ip), ip being the offset of the
\* byte after the failing opcode; in the chunk of a completed compile that
\* offset is inside the code and its line is the line of that next byte
C23_TypeErrorLine ==
    (pc \in {"returned", "exited"} /\ TypeErrorHit(ret)) =>
        /\ comp.returned \in {"Ok(true)", "Ok(false)"}
        /\ vm.ip > 0
        /\ vm.chunk.code[vm.ip] \in TypedOps
        /\ vm.ip < Len(vm.chunk.code)
        /\ ret.line = get_line_number(vm.chunk, vm.ip)
        /\ ret.line >= 1
        /\ \A t \in TypeErrors : expect.src = t.src => ret.line = t.line

\* the Negate of the first line has failed with the line of the constant on the
\* third
C23_NextByteLine ==
    /\ expect.src = <<"-", "n", "i", "l", "\n", "+", "\n", "1", "\n">>
    /\ pc = "returned"
    /\ TypeErrorHit(ret)
    /\ vm.chunk.code[vm.ip] = OpNegate
    /\ ret.line = 3

----------------------------------------------------------------------------
(* C24: the tokens without parse rules *)

\* the token types the scanner produces
TokenTypes == DOMAIN RULES \cup {"Colon", "QuestionMark"}

\* ( - + * / ! != == < <= > >= Number Str True False Nil
Ruled ==
    {"LeftParen", "Minus", "Plus", "Star", "Slash", "Bang", "BangEqual", "EqualEqual",
     "Less", "LessEqual", "Greater", "GreaterEqual", "Number", "Str", "True", "False",
     "Nil"}

\* C24: every other token type has an entry of the table without prefix rule,
\* without infix rule and with precedence None, and when such a token follows
\* a complete operand the loop of parse_precedence does not consume it
C24_OthersInert ==
    /\ \A ty \in TokenTypes \ Ruled :
            has_rule(ty) /\ get_rule(ty) = Rule("None", "None", PrecNone)
    /\ \A t \in OperandThen :
            expect.src = t.src => (comp.previous.ty # t.ty /\ pc # "panic")

\* the loop of parse_precedence has consumed the `or` that follows 1
C24_OrConsumed ==
    /\ expect.src = <<"1", " ", "o", "r", "\n">>
    /\ pc = "returned"
    /\ comp.previous.ty = "Or"

----------------------------------------------------------------------------
(* C25: opcodes on a stack that is too short *)

\* the number of values an opcode takes from the stack
Needs(op) ==
    IF op \in BinaryOps THEN 2
    ELSE IF op \in {OpReturn, OpNot, OpNegate} THEN 1
    ELSE 0

\* run() is about to execute an opcode that needs more values than the stack
\* holds
Underflowing ==
    /\ pc = "run"
    /\ vm.ip < Len(vm.chunk.code)
    /\ IsOpCode(vm.chunk.code[vm.ip + 1])
    /\ Len(vm.stack) < Needs(vm.chunk.code[vm.ip + 1])

\* C25: an opcode that needs more operands than the stack holds makes run()
\* return a RuntimeError; the process does not panic, in an assertion or in
\* the index arithmetic of peek
C25_UnderflowIsRuntimeError ==
    [][Underflowing => (pc' = "returned" /\ RuntimeKind(ret'))]_vars

\* Add on an empty stack has ended the process in peek's subtraction
C25_AddPanicked ==
    /\ build = "debug"
    /\ pc = "panic"
    /\ vm.stack = <<>>
    /\ vm.ip > 0
    /\ vm.chunk.code[vm.ip] = OpAdd

----------------------------------------------------------------------------
(* C26: the records of the line table *)

\* the 5-byte records of the table: a line number and a count
Records ==
    [i \in 1..(Len(enc.buf) \div 5) |->
        [line |-> read_u32_le(enc.buf, 5 * (i - 1)), count |-> enc.buf[5 * i]]]

\* the line numbers the records from the i-th on stand for, one per byte
RECURSIVE Expanded(_)
Expanded(i) ==
    IF i > Len(Records) THEN <<>>
    ELSE [k \in 1..Records[i].count |-> Records[i].line] \o Expanded(i + 1)

\* C26: the table is a sequence of 5-byte records, each with a count from 1
\* to 255; two adjacent records have the same line number only when the
\* earlier one is full; the records stand for the line numbers added, in
\* order, so that a run of 256 or more equal line numbers is held by
\* consecutive records of that line whose counts sum to the length of the run
C26_Records ==
    /\ Len(enc.buf) % 5 = 0
    /\ \A i \in 1..Len(Records) : Records[i].count \in 1..255
    /\ \A i \in 1..(Len(Records) - 1) :
            Records[i].line = Records[i + 1].line => Records[i].count = 255
    /\ Expanded(1) = enc.added

\* 258 bytes on line 300 are held by a full record and a record of 3
C26_SplitRun ==
    /\ Len(enc.added) = 258
    /\ \A k \in 1..258 : enc.added[k] = 300
    /\ Len(Records) = 2
    /\ Records[1] = [line |-> 300, count |-> 255]
    /\ Records[2] = [line |-> 300, count |-> 3]

----------------------------------------------------------------------------
(* C27: the line table of the chunk under the compiler *)

\* the sum of the count bytes of the records of buf from the i-th on
RECURSIVE CountSum(_, _)
CountSum(buf, i) ==
    IF 5 * i > Len(buf) THEN 0 ELSE buf[5 * i] + CountSum(buf, i + 1)

\* C27: whatever the compiler has written to the chunk, the counts of the line
\* table sum to the length of the code, and get_line_number(i) is defined and
\* at least 1 for every offset i of the code
C27_LineForEveryByte ==
    /\ Len(vm.chunk.lines) % 5 = 0
    /\ CountSum(vm.chunk.lines, 1) = Len(vm.chunk.code)
    /\ \A i \in 0..(Len(vm.chunk.code) - 1) :
            /\ get_line_number(vm.chunk, i) # GetPanics
            /\ get_line_number(vm.chunk, i) >= 1

\* the compiler has written six bytes from three lines of the source
C27_ThreeLines ==
    /\ expect.src = <<"-", "n", "i", "l", "\n", "+", "\n", "1", "\n">>
    /\ pc = "run"
    /\ Len(vm.chunk.code) = 6
    /\ Len(vm.chunk.lines) = 15
    /\ get_line_number(vm.chunk, 5) = 4

----------------------------------------------------------------------------
(* C28: the operands of Constant and ConstantLong *)

\* the bytes a step appends to the code
Appended ==
    SubSeq(vm'.chunk.code, Len(vm.chunk.code) + 1, Len(vm'.chunk.code))

\* bytes, from its i-th on, is a sequence of whole instructions, and the
\* operand of each Constant and ConstantLong among them is below n
RECURSIVE WholeInstructions(_, _, _)
WholeInstructions(bytes, i, n) ==
    IF i > Len(bytes) THEN TRUE
    ELSE IF bytes[i] = OpConstant
    THEN /\ i + 1 <= Len(bytes)
         /\ bytes[i + 1] < n
         /\ WholeInstructions(bytes, i + 2, n)
    ELSE IF bytes[i] = OpConstantLong
    THEN /\ i + 3 <= Len(bytes)
         /\ 65536 * bytes[i + 1] + 256 * bytes[i + 2] + bytes[i + 3] < n
         /\ WholeInstructions(bytes, i + 4, n)
    ELSE /\ IsOpCode(bytes[i])
         /\ WholeInstructions(bytes, i + 1, n)

\* C28: over any sequence of calls, compiles that fail included, every step
\* keeps the code and the pool it found and appends whole instructions whose
\* Constant and ConstantLong operands are indices into the pool, and the
\* VM's assertions on the constant index never fail
C28_OperandsInPool ==
    [][/\ Len(vm'.chunk.code) >= Len(vm.chunk.code)
       /\ SubSeq(vm'.chunk.code, 1, Len(vm.chunk.code)) = vm.chunk.code
       /\ Len(vm'.chunk.constants) >= Len(vm.chunk.constants)
       /\ WholeInstructions(Appended, 1, Len(vm'.chunk.constants))
       /\ ~(pc' = "panic" /\ ret'.msg \in {"read_constant", "read_constant_long"})]_vars

\* the second line of a session has compiled its constant to index 257, behind
\* the 257 constants of the first
C28_LongAfterLong ==
    /\ mode = "repl"
    /\ calls = 2
    /\ pc = "run"
    /\ Len(vm.chunk.constants) = 258
    /\ SubSeq(vm.chunk.code, Len(vm.chunk.code) - 4, Len(vm.chunk.code))
            = <<OpConstantLong, 0, 1, 1, OpReturn>>

----------------------------------------------------------------------------
(* C29: what run() and compile() do to the chunk *)

\* s is a prefix of t
IsPrefix(s, t) == Len(s) <= Len(t) /\ SubSeq(t, 1, Len(s)) = s

\* C29: a step of run() leaves the code, the pool and the line table as they
\* are; every other step of a session, those of compile() included, keeps
\* the code and the constants as a prefix of the new ones and the line of
\* every byte already written
C29_AppendOnly ==
    [][/\ pc = "run" => vm'.chunk = vm.chunk
       /\ vm'.chunk # vm.chunk =>
              /\ IsPrefix(vm.chunk.code, vm'.chunk.code)
              /\ IsPrefix(vm.chunk.constants, vm'.chunk.constants)
              /\ \A i \in 0..(Len(vm.chunk.code) - 1) :
                     get_line_number(vm'.chunk, i) = get_line_number(vm.chunk, i)]_vars

\* the second call of a session has compiled behind the code of the first and
\* has run
C29_SecondCallRan ==
    /\ mode = "repl"
    /\ calls = 2
    /\ pc = "returned"
    /\ entry.start > 0
    /\ Len(vm.chunk.code) > entry.start
    /\ entry.steps > 0


-----------------------------------------------------------------------------
(* C30: how run() ends *)

\* the bytes an instruction takes: its opcode and its operand
Width(byte) ==
    IF byte = OpConstant THEN 2 ELSE IF byte = OpConstantLong THEN 4 ELSE 1

\* the offset behind the instruction at offset i, or one past the end when no
\* instruction starts at i
Hop(code, i) == IF i < Len(code) THEN i + Width(code[i + 1]) ELSE Len(code) + 1

Hop4(code, i) == Hop(code, Hop(code, Hop(code, Hop(code, i))))

Hop16(code, i) == Hop4(code, Hop4(code, Hop4(code, Hop4(code, i))))

\* offset ip is where an instruction starts, counting instructions from
\* offset i
RECURSIVE Boundary(_, _, _)
Boundary(code, i, ip) ==
    IF ip < i THEN FALSE
    ELSE IF Hop16(code, i) <= ip THEN Boundary(code, Hop16(code, i), ip)
    ELSE IF Hop4(code, i) <= ip THEN Boundary(code, Hop4(code, i), ip)
    ELSE IF i = ip THEN TRUE
    ELSE Boundary(code, Hop(code, i), ip)

\* read_byte finds its byte: in every iteration of run(), after whatever calls
\* came before, ip is below code.len and at an instruction's first byte, the
\* iteration moves ip forward, and the assertion of read_byte never fails
ReadByteInBounds ==
    [][pc = "run" =>
          /\ vm.ip < Len(vm.chunk.code)
          /\ Boundary(vm.chunk.code, 0, vm.ip)
          /\ vm'.ip > vm.ip
          /\ vm'.ip <= Len(vm.chunk.code)
          /\ ~(pc' = "panic" /\ ret'.msg \in {"read_byte", "read byte"})]_vars

\* C30: after whatever calls came before on the same VM, every iteration of
\* run() finds ip below code.len and at an instruction's first byte, moves ip
\* forward, and either goes on or returns from run(), by Return or with an
\* error: run() does not end in a panic
C30_RunReturns ==
    [][pc = "run" =>
          /\ vm.ip < Len(vm.chunk.code)
          /\ Boundary(vm.chunk.code, 0, vm.ip)
          /\ vm'.ip > vm.ip
          /\ pc' \in {"run", "returned"}]_vars

\* the third call of a session has entered run() at an Add left behind by two
\* type errors, with an empty stack, and the checked subtraction of peek has
\* panicked
C30_AddOnEmptyStack ==
    /\ mode = "repl"
    /\ build = "debug"
    /\ calls = 3
    /\ pc = "panic"
    /\ ret.msg = "attempt to subtract with overflow"
    /\ entry.steps = 1
    /\ vm.chunk.code[vm.ip] = OpAdd
    /\ vm.stack = <<>>

====
